---- MODULE Spec2Model ----
(***************************************************************************)
(* Webpage-to-PDF service: the job queue (QueueService), the URL           *)
(* normaliser and validators it calls on submission, and the worker loop   *)
(* that drives claim / render / complete-or-requeue.                       *)
(*                                                                         *)
(* A URL is a sequence of symbols.  A symbol is either one of the          *)
(* delimiter characters  : / ? # ;  or a non-empty run of characters that  *)
(* holds no delimiter ("https", "example.com", "a").  urlparse and         *)
(* urlunparse only ever cut and join a URL at delimiters, and str.lower    *)
(* works character by character, so every function below is computed on   *)
(* the symbols exactly as the Python code computes it on the characters.   *)
(***************************************************************************)
EXTENDS Integers, Sequences, FiniteSets, TLC

\* ------------------------------------------------------------------ bounds
\* Longest tail (what follows scheme://host) of the URLs fed to normalize_url.
MaxRest == 4
\* Times normalize_url is applied in a row to one URL.
MaxApply == 2
\* Most Job rows the store holds.
MaxJobs == 2
\* Last UTC day of a run (days are numbered from 0).
MaxDay == 1
\* Most claims of one job.
MaxAttempts == 3
\* Most submit requests in flight between their SELECT and their INSERT.
MaxSubmitters == 2
\* Most Job rows of the store when the queue is polled while the clock runs.
MaxQueued == 3
\* Most answers to the HEAD requests of one redirect walk.
MaxHeads == 6
\* Last second of the clock when the health endpoint is watched.
MaxTime == 32
\* Most claim_next_job calls of a run in which the calls interleave.
MaxClaimers == 3

\* ------------------------------------------------------- program constants
\* settings.max_retries
DefaultMaxRetries == 2
\* settings.navigation_timeout_seconds
DefaultNavigationTimeout == 45
\* settings.job_timeout_seconds
DefaultJobTimeout == 120
\* settings.max_domain_wait_seconds
DefaultMaxDomainWait == 600
\* validate_redirects(url, max_redirects=5)
DefaultMaxRedirects == 5
\* health_check: "is_alive = age < 30"
HeartbeatMaxAge == 30
\* heartbeat_loop: "await asyncio.sleep(10)"
HeartbeatPeriod == 10
\* seconds in a UTC calendar day (strftime("%Y-%m-%d") of a UTC datetime)
SecondsPerDay == 86400

\* ------------------------------------------------------------- sequences
\* None, for an optional string, integer, or sequence of symbols.
NoneVal == "None"
NoInt == -1
NoSeq == <<>>

Min(S) == CHOOSE x \in S : \A y \in S : x <= y
Max(S) == CHOOSE x \in S : \A y \in S : x >= y

\* str.find(c, start): the first index >= start holding c, 0 when there is none
\* (indices count from 1; Python's -1 is 0 here).
Find(s, c, start) ==
    LET I == {i \in start..Len(s) : s[i] = c}
    IN  IF I = {} THEN 0 ELSE Min(I)

\* str.rfind(c): the last index holding c, 0 when there is none.
RFind(s, c) ==
    LET I == {i \in 1..Len(s) : s[i] = c}
    IN  IF I = {} THEN 0 ELSE Max(I)

\* s[i:] of Python, for a 1-based i.
From(s, i) == SubSeq(s, i, Len(s))

\* s[:i] of Python (the symbols before the 1-based index i).
Before(s, i) == SubSeq(s, 1, i - 1)

\* str.rstrip('/'): every trailing slash goes.
RStripSlash(s) ==
    LET I == {i \in 1..Len(s) : s[i] # "/"}
    IN  IF I = {} THEN <<>> ELSE SubSeq(s, 1, Max(I))

\* str.lower on one symbol.
LowerSym(c) ==
    CASE c = "HTTPS" -> "https"
      [] c = "HTTP" -> "http"
      [] c = "FTP" -> "ftp"
      [] c = "EXAMPLE.COM" -> "example.com"
      [] c = "WWW.EXAMPLE.COM" -> "www.example.com"
      [] c = "OTHER.COM" -> "other.com"
      [] c = "LOCALHOST" -> "localhost"
      [] c = "METADATA.GOOGLE.INTERNAL" -> "metadata.google.internal"
      [] c = "FE80" -> "fe80"
      [] c = "A" -> "a"
      [] c = "B" -> "b"
      [] c = "FRAG" -> "frag"
      [] OTHER -> c

\* str.lower
Lower(s) == [i \in 1..Len(s) |-> LowerSym(s[i])]

\* --------------------------------------------------------- urllib.parse
\* urlsplit's scheme step: a ':' that is not first, with only scheme characters
\* before it, ends the scheme; the scheme is lowercased.
SplitScheme(url) ==
    LET i == Find(url, ":", 1)
    IN  IF i > 1 /\ \A k \in 1..(i - 1) : url[k] \notin {":", "/", "?", "#", ";"}
        THEN [scheme |-> Lower(Before(url, i)), rest |-> From(url, i + 1)]
        ELSE [scheme |-> <<>>, rest |-> url]

\* _splitnetloc(url, 2): the authority runs to the first of / ? #.
SplitNetloc(url) ==
    LET C == {Find(url, c, 3) : c \in {"/", "?", "#"}} \ {0}
        delim == IF C = {} THEN Len(url) + 1 ELSE Min(C)
    IN  IF Len(url) >= 2 /\ url[1] = "/" /\ url[2] = "/"
        THEN [netloc |-> SubSeq(url, 3, delim - 1), rest |-> From(url, delim)]
        ELSE [netloc |-> <<>>, rest |-> url]

\* url.split(c, 1): what precedes the first c, and what follows it.
SplitAt(url, c) ==
    LET i == Find(url, c, 1)
    IN  IF i = 0 THEN [head |-> url, tail |-> <<>>]
        ELSE [head |-> Before(url, i), tail |-> From(url, i + 1)]

\* urlsplit, its last steps: the fragment is cut at the first '#', then the
\* query at the first '?' of what precedes it.
SplitQuery(scheme, netloc, q, fragment) ==
    [scheme |-> scheme, netloc |-> netloc, path |-> q.head,
     query |-> q.tail, fragment |-> fragment]

SplitFragment(scheme, netloc, f) ==
    SplitQuery(scheme, netloc, SplitAt(f.head, "?"), f.tail)

SplitAuthority(scheme, n) ==
    SplitFragment(scheme, n.netloc, SplitAt(n.rest, "#"))

SplitRest(s) == SplitAuthority(s.scheme, SplitNetloc(s.rest))

\* urlsplit
urlsplit(url) == SplitRest(SplitScheme(url))

\* _splitparams: the parameters are cut at the first ';' of the LAST path
\* segment; a ';' in an earlier segment stays in the path.
splitparams(url) ==
    LET i == IF Find(url, "/", 1) # 0 THEN Find(url, ";", RFind(url, "/"))
             ELSE Find(url, ";", 1)
    IN  IF i = 0 THEN [path |-> url, params |-> <<>>]
        ELSE [path |-> Before(url, i), params |-> From(url, i + 1)]

uses_params == {<<>>, <<"ftp">>, <<"http">>, <<"https">>}

\* urlparse, its last step: the six components.
ParseResult(s, p) ==
    [scheme |-> s.scheme, netloc |-> s.netloc, path |-> p.path,
     params |-> p.params, query |-> s.query, fragment |-> s.fragment]

\* urlparse, on what urlsplit returned: the parameters leave the path.
ParseParams(s) ==
    ParseResult(s, IF s.scheme \in uses_params /\ Find(s.path, ";", 1) # 0
                   THEN splitparams(s.path)
                   ELSE [path |-> s.path, params |-> <<>>])

\* urlparse
urlparse(url) == ParseParams(urlsplit(url))

uses_netloc == {<<>>, <<"ftp">>, <<"http">>, <<"https">>}

\* urlunsplit
urlunsplit(scheme, netloc, url, query, fragment) ==
    LET u1 == IF netloc # <<>>
                 \/ (scheme # <<>> /\ scheme \in uses_netloc
                     /\ SubSeq(url, 1, 2) # <<"/", "/">>)
              THEN <<"/", "/">> \o netloc
                   \o (IF url # <<>> /\ url[1] # "/" THEN <<"/">> ELSE <<>>) \o url
              ELSE url
        u2 == IF scheme # <<>> THEN scheme \o <<":">> \o u1 ELSE u1
        u3 == IF query # <<>> THEN u2 \o <<"?">> \o query ELSE u2
    IN  IF fragment # <<>> THEN u3 \o <<"#">> \o fragment ELSE u3

\* urlunparse: empty parameters leave no ';' behind.
urlunparse(scheme, netloc, url, params, query, fragment) ==
    urlunsplit(scheme, netloc,
               IF params # <<>> THEN url \o <<";">> \o params ELSE url,
               query, fragment)

\* ------------------------------------------------- security/url_validator
\* The path normalize_url keeps: every trailing slash stripped, except that the
\* path "/" stays.
NormalPath(path) == IF path # <<"/">> THEN RStripSlash(path) ELSE <<"/">>

\* normalize_url, its urlunparse: the fragment is dropped.
Recompose(parsed) ==
    urlunparse(parsed.scheme, parsed.netloc, NormalPath(parsed.path),
               parsed.params, parsed.query, <<>>)

normalize_url(url) == Recompose(urlparse(Lower(url)))

\* validate_url_format, on the parsed URL.
FormatOf(url, parsed) ==
    IF url = <<>> THEN "ValueError"
    ELSE IF parsed.scheme \notin {<<"http">>, <<"https">>} THEN "ValueError"
    ELSE IF parsed.netloc = <<>> THEN "ValueError"
    ELSE "ok"

\* validate_url_format: "ok", or the exception raised.  The URL is parsed as
\* given (not lowercased); urlsplit lowercases the scheme itself.
validate_url_format(url) == FormatOf(url, urlparse(url))

\* str.partition(c)[0]: the symbols before the first c, all of s without one.
PartitionHead(s, c, i) == IF i = 0 THEN s ELSE Before(s, i)

\* _hostinfo's host part: of a bracketed host what stands between '[' and ']',
\* of any other what stands before the first ':'; br is the index of '['.
HostPart(hostinfo, br) ==
    IF br # 0
    THEN PartitionHead(From(hostinfo, br + 1), "]",
                       Find(From(hostinfo, br + 1), "]", 1))
    ELSE PartitionHead(hostinfo, ":", Find(hostinfo, ":", 1))

\* _hostinfo, of the authority without its user information.
HostOf(hostinfo) == HostPart(hostinfo, Find(hostinfo, "[", 1))

\* ParseResult.hostname: the host of the authority, without user information,
\* brackets and port, lowercased; <<>> stands for None (no host).  In an
\* authority '@', '[' and ']' are symbols of their own, as ':' is; no host of
\* the model carries an IPv6 zone ('%').
hostname(url) ==
    Lower(HostOf(From(urlparse(url).netloc,
                      RFind(urlparse(url).netloc, "@") + 1)))

\* ------------------------------------------------------------- the URLs
https == <<"https", ":", "/", "/">>

UrlA == https \o <<"example.com", "/", "a">>
UrlAVariant == <<"HTTPS", ":", "/", "/", "EXAMPLE.COM", "/", "a", "/", "#", "frag">>
UrlRoot == https \o <<"example.com", "/">>
UrlOther == https \o <<"other.com", "/", "q">>
UrlFtp == <<"ftp", ":", "/", "/", "example.com", "/", "a">>

UrlMetadata ==
    <<"http", ":", "/", "/", "169.254.169.254", "/", "latest", "/", "meta-data",
      "/">>

\* The URLs submitted to the queue.
RawURLs ==
    {UrlA, UrlAVariant, UrlRoot, UrlOther, UrlFtp,
     <<"http", ":", "/", "/", "localhost", "/">>}

\* ipaddress.IPv4Address(text): the four octets the dotted quad denotes, <<>>
\* for a symbol that is no IPv4 literal (AddressValueError).
IPv4Octets(c) ==
    CASE c = "127.0.0.1" -> <<127, 0, 0, 1>>
      [] c = "127.255.255.255" -> <<127, 255, 255, 255>>
      [] c = "126.255.255.255" -> <<126, 255, 255, 255>>
      [] c = "128.0.0.0" -> <<128, 0, 0, 0>>
      [] c = "10.0.0.1" -> <<10, 0, 0, 1>>
      [] c = "10.255.255.255" -> <<10, 255, 255, 255>>
      [] c = "9.255.255.255" -> <<9, 255, 255, 255>>
      [] c = "11.0.0.0" -> <<11, 0, 0, 0>>
      [] c = "172.16.0.1" -> <<172, 16, 0, 1>>
      [] c = "172.31.255.255" -> <<172, 31, 255, 255>>
      [] c = "172.15.255.255" -> <<172, 15, 255, 255>>
      [] c = "172.32.0.0" -> <<172, 32, 0, 0>>
      [] c = "192.168.1.1" -> <<192, 168, 1, 1>>
      [] c = "192.167.255.255" -> <<192, 167, 255, 255>>
      [] c = "192.169.0.0" -> <<192, 169, 0, 0>>
      [] c = "169.254.169.254" -> <<169, 254, 169, 254>>
      [] c = "169.254.0.1" -> <<169, 254, 0, 1>>
      [] c = "169.253.255.255" -> <<169, 253, 255, 255>>
      [] c = "169.255.0.0" -> <<169, 255, 0, 0>>
      [] c = "8.8.8.8" -> <<8, 8, 8, 8>>
      [] c = "1.1.1.1" -> <<1, 1, 1, 1>>
      [] OTHER -> <<>>

\* int(text, 16) of one group of an IPv6 literal, NoInt for a symbol that is
\* no such group.
HexGroup(c) ==
    CASE c = "1" -> 1
      [] c = "2" -> 2
      [] c = "fc00" -> 64512
      [] c = "fdff" -> 65023
      [] c = "fbff" -> 64511
      [] c = "fe00" -> 65024
      [] c = "fe80" -> 65152
      [] c = "febf" -> 65215
      [] c = "fec0" -> 65216
      [] c = "ffff" -> 65535
      [] c = "2001" -> 8193
      [] c = "4860" -> 18528
      [] c = "8888" -> 34952
      [] OTHER -> NoInt

\* The upper and the lower 16 bits of an IPv4 address.
IPHigh(ip) == ip[1] * 256 + ip[2]
IPLow(ip) == ip[3] * 256 + ip[4]

\* The 16-bit groups one part of an IPv6 literal denotes: a group, or the two
\* groups of a dotted quad; <<NoInt>> for anything else.
GroupsOfPart(c) ==
    IF HexGroup(c) # NoInt THEN <<HexGroup(c)>>
    ELSE IF IPv4Octets(c) # <<>>
         THEN <<IPHigh(IPv4Octets(c)), IPLow(IPv4Octets(c))>>
    ELSE <<NoInt>>

\* The groups of the ':'-separated parts of s, in order.
RECURSIVE GroupsOf(_)
GroupsOf(s) ==
    IF s = <<>> THEN <<>>
    ELSE IF s[1] = ":" THEN <<NoInt>>
    ELSE IF Len(s) = 1 THEN GroupsOfPart(s[1])
    ELSE IF s[2] # ":" \/ Len(s) = 2 THEN <<NoInt>>
    ELSE GroupsOfPart(s[1]) \o GroupsOf(From(s, 3))

\* The eight groups, given those left and right of the '::'.
Expand(left, right) ==
    IF Len(left) + Len(right) > 7 THEN <<NoInt>>
    ELSE left \o [i \in 1..(8 - Len(left) - Len(right)) |-> 0] \o right

\* The index of the first "::" of the host, 0 when it has none.
DoubleColon(host) ==
    Min({i \in 1..(Len(host) - 1) : host[i] = ":" /\ host[i + 1] = ":"}
        \cup {Len(host) + 1}) % (Len(host) + 1)

\* ipaddress.IPv6Address(text), dc the index of its "::".
IPv6Groups(host, dc) ==
    IF dc = 0 THEN GroupsOf(host)
    ELSE Expand(GroupsOf(Before(host, dc)), GroupsOf(From(host, dc + 2)))

WellFormed(groups) ==
    IF Len(groups) = 8 /\ \A k \in 1..8 : groups[k] # NoInt THEN groups
    ELSE <<>>

\* ipaddress.ip_address: the four octets of an IPv4 literal, the eight groups
\* of an IPv6 literal, <<>> for a host name that is neither (ValueError).
ip_address(host) ==
    IF Len(host) = 1 THEN IPv4Octets(host[1])
    ELSE IF \E i \in 1..Len(host) : host[i] = ":"
         THEN WellFormed(IPv6Groups(host, DoubleColon(host)))
    ELSE <<>>

\* The address as 16-bit words: two of an IPv4 address, eight of an IPv6 one.
Words(ip) == IF Len(ip) = 4 THEN <<IPHigh(ip), IPLow(ip)>> ELSE ip

\* How many of the first bits of an address lie in its k-th word.
PrefixBits(bits, k) ==
    IF bits <= 16 * (k - 1) THEN 0
    ELSE IF bits >= 16 * k THEN 16
    ELSE bits - 16 * (k - 1)

\* ip in ip_network(base/bits): both of one version, and their first bits
\* agree.
InNetwork(ip, base, bits) ==
    /\ Len(ip) = Len(base)
    /\ \A k \in 1..Len(Words(ip)) :
          Words(ip)[k] \div (2 ^ (16 - PrefixBits(bits, k)))
            = Words(base)[k] \div (2 ^ (16 - PrefixBits(bits, k)))

\* PRIVATE_IP_RANGES as it would be with 172.16.0.0/16 for 172.16.0.0/12.
PRIVATE_IP_RANGES_narrow ==
    { <<(<<10, 0, 0, 0>>), 8>>, <<(<<172, 16, 0, 0>>), 16>>,
      <<(<<192, 168, 0, 0>>), 16>>, <<(<<127, 0, 0, 0>>), 8>>,
      <<(<<169, 254, 0, 0>>), 16>>,
      <<(<<0, 0, 0, 0, 0, 0, 0, 1>>), 128>>,
      <<(<<64512, 0, 0, 0, 0, 0, 0, 0>>), 7>>,
      <<(<<65152, 0, 0, 0, 0, 0, 0, 0>>), 10>> }

\* PRIVATE_IP_RANGES
PRIVATE_IP_RANGES ==
    { <<(<<10, 0, 0, 0>>), 8>>, <<(<<172, 16, 0, 0>>), 12>>,
      <<(<<192, 168, 0, 0>>), 16>>, <<(<<127, 0, 0, 0>>), 8>>,
      <<(<<169, 254, 0, 0>>), 16>>,
      <<(<<0, 0, 0, 0, 0, 0, 0, 1>>), 128>>,
      <<(<<64512, 0, 0, 0, 0, 0, 0, 0>>), 7>>,
      <<(<<65152, 0, 0, 0, 0, 0, 0, 0>>), 10>> }

\* is_private_ip: FALSE for a host name that is no IP literal.
is_private_ip(host) ==
    LET ip == ip_address(host)
    IN  IF ip = <<>> THEN FALSE
        ELSE \E n \in PRIVATE_IP_RANGES : InNetwork(ip, n[1], n[2])

METADATA_ENDPOINTS == {<<"169.254.169.254">>, <<"metadata.google.internal">>}

is_metadata_endpoint(host) == Lower(host) \in METADATA_ENDPOINTS

\* What socket.getaddrinfo may do: raise socket.gaierror, or answer addresses.
DNSAnswers ==
    { [gaierror |-> TRUE, addrs |-> {}],
      [gaierror |-> FALSE, addrs |-> {<<"8.8.8.8">>}],
      [gaierror |-> FALSE, addrs |-> {<<"8.8.8.8">>, <<"10.0.0.1">>}] }

\* The try block of validate_ssrf.  The SSRFError for a private address is
\* raised INSIDE the try, and SSRFError is an Exception: "except Exception:
\* pass" swallows it, as "except socket.gaierror: pass" swallows a failed
\* resolution.  The result is what leaves the block.
ResolveCheck(dns) ==
    LET raised == IF dns.gaierror THEN "gaierror"
                  ELSE IF \E a \in dns.addrs : is_private_ip(a) THEN "SSRFError"
                  ELSE "none"
    IN  CASE raised = "gaierror" -> "ok"
          [] raised = "SSRFError" -> "ok"
          [] OTHER -> "ok"

\* validate_ssrf, on the host name of the URL.
CheckHost(host, dns) ==
    IF host = <<>> THEN "SSRFError"
    ELSE IF is_metadata_endpoint(host) THEN "SSRFError"
    ELSE IF is_private_ip(host) THEN "SSRFError"
    ELSE IF Lower(host) \in {<<"localhost">>, <<"localhost.localdomain">>}
         THEN "SSRFError"
    ELSE ResolveCheck(dns)

\* validate_ssrf: "ok", or the exception raised.
validate_ssrf(url, dns) == CheckHost(hostname(url), dns)

\* ------------------------------------------------------------ utils/domain
\* psl.privatesuffix: the registrable domain of a host name.  The hosts of the
\* model are registrable domains themselves, but for www.example.com.
privatesuffix(host) ==
    IF host = <<"www.example.com">> THEN <<"example.com">> ELSE host

\* extract_main_domain (a URL that reaches it has passed validate_ssrf, so it
\* has a host name).
extract_main_domain(url) == Lower(privatesuffix(hostname(url)))


\* ------------------------------------------------------------------- state
VARIABLES
    jobs,        \* table jobs: the Job rows in insertion order; job_id = index
    locks,       \* table domain_locks: the DomainLock rows
    now,         \* datetime.now(timezone.utc), in seconds
    resp,        \* what the last QueueService call returned or raised
    issued,      \* history: the job_id each URL's last submit of the day returned
    submitters,  \* the API requests in flight between their SELECT and INSERT
    worker,      \* the worker loop: its position, claimed Job and render result
    url,         \* the URL under study of the normaliser's specification
    variant,     \* a URL that differs from url in slash, case or fragment
    normalized,  \* normalize_url applied to url once, twice, ...
    heartbeat,   \* table worker_heartbeats: last_heartbeat of worker-1, or none
    claimers,    \* the claim_next_job calls in flight between SELECT and commit
    running      \* Worker.running: the stop flag of the worker loop, set = FALSE

vars == <<jobs, locks, now, resp, issued, submitters, worker, url, variant,
          normalized, heartbeat, claimers, running>>
store == <<jobs, locks>>
urlvars == <<url, variant, normalized>>
aside == <<heartbeat, claimers, running>>

\* JobStatus
QUEUED == "queued"
WAITING_DOMAIN_LOCK == "waiting_domain_lock"
RUNNING == "running"
SUCCEEDED == "succeeded"
FAILED == "failed"
Terminal == {SUCCEEDED, FAILED}

\* strftime("%Y-%m-%d") of a UTC time: the number of the UTC day.
submission_date_of(t) == t \div SecondsPerDay

\* Python's "x or default" on an optional integer: None and 0 are both falsy.
OrDefault(x, default) == IF x = NoInt \/ x = 0 THEN default ELSE x

\* "x or default" on an optional string: None and "" are both falsy.
OrDefaultStr(x, default) == IF x = NoneVal \/ x = "" THEN default ELSE x

JobIds == 1..Len(jobs)

\* QueueService.get_job: the row's index, 0 for None.
get_job(J, job_id) == IF job_id \in 1..Len(J) THEN job_id ELSE 0

\* ExistingJob as it would be if the SELECT left submission_date out.
ExistingJobAnyDay(J, normalized_url, submission_date) ==
    LET I == {i \in 1..Len(J) : J[i].normalized_url = normalized_url}
    IN  IF I = {} THEN 0 ELSE Min(I)

\* The SELECT of create_job: the row with this normalized_url and
\* submission_date (scalar_one_or_none), 0 for None.
ExistingJob(J, normalized_url, submission_date) ==
    LET I == {i \in 1..Len(J) : /\ J[i].normalized_url = normalized_url
                                /\ J[i].submission_date = submission_date}
    IN  IF I = {} THEN 0 ELSE Min(I)

\* idx_dedup as it would be if the index were not unique: no INSERT refused.
idx_dedup_not_unique(J, row) == FALSE

\* Index idx_dedup (normalized_url, submission_date), unique: whether the
\* INSERT of row raises IntegrityError.
idx_dedup(J, row) ==
    \E i \in 1..Len(J) : /\ J[i].normalized_url = row.normalized_url
                         /\ J[i].submission_date = row.submission_date

\* The Job that create_job builds.
NewJob(job_id, u, ov, t) ==
    [job_id |-> job_id,
     normalized_url |-> normalize_url(u),
     main_domain |-> extract_main_domain(u),
     status |-> QUEUED,
     attempts |-> 0,
     created_at |-> t,
     started_at |-> NoInt,
     finished_at |-> NoInt,
     error_code |-> NoneVal,
     error_message |-> NoSeq,
     render_mode |-> OrDefaultStr(ov.render_mode, "print_to_pdf"),
     navigation_timeout_seconds |->
         OrDefault(ov.navigation_timeout_seconds, DefaultNavigationTimeout),
     job_timeout_seconds |-> OrDefault(ov.job_timeout_seconds, DefaultJobTimeout),
     max_domain_wait_seconds |->
         OrDefault(ov.max_domain_wait_seconds, DefaultMaxDomainWait),
     max_retries |-> OrDefault(ov.max_retries, DefaultMaxRetries),
     deduplicated |-> FALSE,
     submission_date |-> submission_date_of(t),
     metadata_json |-> ov.metadata]

\* validate_ssrf, reached when validate_url_format raised nothing.
ThenSSRF(format, u, dns) ==
    IF format # "ok" THEN format ELSE validate_ssrf(u, dns)

\* The two validations create_job starts with: "ok" or the exception.
SubmitChecks(u, dns) == ThenSSRF(validate_url_format(u), u, dns)

\* What create_job returned (or raised) for the URL u and the row built from
\* it, and where it left: "existing" (the first SELECT found the row),
\* "created", "race" (the INSERT was refused and the second SELECT found the
\* row), "raise".  Two facts of the history go with it: prior is the job_id the
\* last submit of the same URL on the same day returned (0 for none), first
\* says no URL of this fingerprint was submitted that day.
SubmitResp(u, row, status, job_id, deduplicated, branch) ==
    [op |-> "submit", status |-> status, url |-> u,
     job_id |-> job_id, deduplicated |-> deduplicated, branch |-> branch,
     prior |-> IF \E r \in issued : r.url = u /\ r.date = row.submission_date
               THEN (CHOOSE r \in issued :
                        r.url = u /\ r.date = row.submission_date).job_id
               ELSE 0,
     first |-> ~\E r \in issued : /\ r.date = row.submission_date
                                   /\ r.normalized_url = row.normalized_url]

\* The history after the response r to the submit that built row: what each
\* URL's last successful submit of the current day returned.
Issue(r, row) ==
    IF r.status # "ok"
    THEN {x \in issued : x.date = submission_date_of(now)}
    ELSE {x \in issued : /\ x.date = submission_date_of(now)
                         /\ ~(x.url = r.url /\ x.date = row.submission_date)}
            \cup {[url |-> r.url, date |-> row.submission_date,
                   job_id |-> r.job_id, normalized_url |-> row.normalized_url]}

\* create_job returns (or raises): the response and the history.
Reply(r, row) == resp' = r /\ issued' = Issue(r, row)

\* Conflict as it would be without the except branch: the IntegrityError of the
\* refused INSERT reaches the caller.
ConflictRaises(u, row, again) ==
    /\ UNCHANGED jobs
    /\ Reply(SubmitResp(u, row, "IntegrityError", 0, FALSE, "raise"), row)

\* The except IntegrityError branch of create_job: the rollback, the second
\* SELECT, and the existing row returned as deduplicated (or the error raised
\* again when that SELECT finds none).
Conflict(u, row, again) ==
    /\ UNCHANGED jobs
    /\ IF again # 0
       THEN Reply(SubmitResp(u, row, "ok", jobs[again].job_id, TRUE, "race"), row)
       ELSE Reply(SubmitResp(u, row, "IntegrityError", 0, FALSE, "raise"), row)

\* INSERT and commit of create_job for a request whose SELECT found no row:
\* the row is added, unless the unique index refuses it.
InsertJob(u, row) ==
    IF idx_dedup(jobs, row)
    THEN Conflict(u, row,
                  ExistingJob(jobs, row.normalized_url, row.submission_date))
    ELSE /\ jobs' = Append(jobs, row)
         /\ Reply(SubmitResp(u, row, "ok", row.job_id, FALSE, "created"), row)

\* ReturnExisting as it would be if the found row took the configuration of
\* the new request (an upsert).
ReturnExistingUpdated(u, row, existing) ==
    /\ jobs' = [jobs EXCEPT
                   ![existing].render_mode = row.render_mode,
                   ![existing].navigation_timeout_seconds =
                       row.navigation_timeout_seconds,
                   ![existing].job_timeout_seconds = row.job_timeout_seconds,
                   ![existing].max_domain_wait_seconds =
                       row.max_domain_wait_seconds,
                   ![existing].max_retries = row.max_retries,
                   ![existing].metadata_json = row.metadata_json]
    /\ Reply(SubmitResp(u, row, "ok", jobs[existing].job_id, TRUE, "existing"),
             row)

\* create_job when its first SELECT finds the row.
ReturnExisting(u, row, existing) ==
    /\ UNCHANGED jobs
    /\ Reply(SubmitResp(u, row, "ok", jobs[existing].job_id, TRUE, "existing"),
             row)

\* create_job raising what its validations raised.
RaiseInvalid(u, row, status) ==
    /\ UNCHANGED jobs
    /\ Reply(SubmitResp(u, row, status, 0, FALSE, "raise"), row)

\* create_job from its first SELECT on.
SelectThenInsert(u, row, existing) ==
    IF existing # 0 THEN ReturnExisting(u, row, existing)
    ELSE InsertJob(u, row)

\* CreateChecked as it would be if what the validations raised were ignored.
CreateUnchecked(u, status, row) ==
    SelectThenInsert(u, row,
        ExistingJob(jobs, row.normalized_url, row.submission_date))

\* create_job once the validations are done and the fingerprint, the main
\* domain and the submission date are computed (they are the row's).
CreateChecked(u, status, row) ==
    IF status # "ok" THEN RaiseInvalid(u, row, status)
    ELSE SelectThenInsert(u, row,
             ExistingJob(jobs, row.normalized_url, row.submission_date))

\* QueueService.create_job, run without interruption.
create_job(u, ov, dns) ==
    /\ CreateChecked(u, SubmitChecks(u, dns), NewJob(Len(jobs) + 1, u, ov, now))
    /\ UNCHANGED locks

\* submit_job: the HTTP status of the response, from what create_job returned
\* or raised.
http_status(status) ==
    CASE status = "ok" -> 202
      [] status = "ValueError" -> 400
      [] status = "SSRFError" -> 400
      [] OTHER -> 500

\* ORDER BY created_at LIMIT 1 over the rows of one status: 0 when there is
\* none.  Rows are inserted with a strictly growing clock; the model's coarser
\* clock lets created_at tie, and the tie goes to the row inserted first.
OldestWithStatus(J, status) ==
    LET I == {i \in 1..Len(J) : J[i].status = status}
    IN  IF I = {} THEN 0
        ELSE CHOOSE i \in I : \A k \in I :
                \/ J[i].created_at < J[k].created_at
                \/ (J[i].created_at = J[k].created_at /\ i <= k)

\* Candidate as it would be if the waiting rows were looked at first.
CandidateWaitingFirst(J) ==
    IF OldestWithStatus(J, WAITING_DOMAIN_LOCK) # 0
    THEN OldestWithStatus(J, WAITING_DOMAIN_LOCK)
    ELSE OldestWithStatus(J, QUEUED)

\* The candidate of claim_next_job: the oldest QUEUED row, and only when no row
\* is QUEUED the oldest WAITING_DOMAIN_LOCK row.
Candidate(J) ==
    IF OldestWithStatus(J, QUEUED) # 0 THEN OldestWithStatus(J, QUEUED)
    ELSE OldestWithStatus(J, WAITING_DOMAIN_LOCK)

\* LockOf as it would be if claim_next_job did not look for the lock.
LockOfNone(L, main_domain) == {}

\* The SELECT on domain_locks by main_domain.
LockOf(L, main_domain) == {l \in L : l.main_domain = main_domain}

\* The return value of a call that returns a Job or None.
CallResp(op, job_id) ==
    [op |-> op, status |-> "ok", url |-> NoSeq, job_id |-> job_id,
     deduplicated |-> FALSE, branch |-> "none", prior |-> 0, first |-> FALSE]

\* wait_duration as it would be if the budget's last second counted as
\* exceeded (>= in place of >).
wait_duration_inclusive(job) == now - job.created_at + 1

\* The wait the claimer measures: now - created_at, in seconds.
wait_duration(job) == now - job.created_at

\* Claimed as it would be if claim_next_job did not count the attempt.
ClaimedUncounted(job) == [job EXCEPT !.status = RUNNING, !.started_at = now]

\* The job as claim_next_job leaves it when it acquires the lock.
Claimed(job) ==
    [job EXCEPT !.status = RUNNING, !.started_at = now,
                !.attempts = job.attempts + 1]

\* QueueService.claim_next_job; the Job it returns is recorded in resp.
claim_next_job ==
    LET c == Candidate(jobs)
    IN  IF c = 0
        THEN resp' = CallResp("claim", 0) /\ UNCHANGED store
        ELSE LET job == jobs[c]
             IN  IF LockOf(locks, job.main_domain) # {}
                 THEN IF wait_duration(job) > job.max_domain_wait_seconds
                      THEN /\ jobs' = [jobs EXCEPT ![c] =
                                  [job EXCEPT
                                     !.status = FAILED,
                                     !.error_code = "DOMAIN_WAIT_TIMEOUT",
                                     !.error_message =
                                        <<"Exceeded max domain wait time: ",
                                          ToString(job.max_domain_wait_seconds),
                                          "s">>,
                                     !.finished_at = now]]
                           /\ resp' = CallResp("claim", 0)
                           /\ UNCHANGED locks
                      ELSE /\ jobs' = [jobs EXCEPT ![c].status =
                                          WAITING_DOMAIN_LOCK]
                           /\ resp' = CallResp("claim", 0)
                           /\ UNCHANGED locks
                 ELSE /\ locks' = locks \cup
                            {[main_domain |-> job.main_domain,
                              job_id |-> job.job_id,
                              locked_at |-> now,
                              max_wait_seconds |-> job.max_domain_wait_seconds]}
                      /\ jobs' = [jobs EXCEPT ![c] = Claimed(job)]
                      /\ resp' = CallResp("claim", job.job_id)

\* ReleaseLock as it would be if the DELETE were not executed.
ReleaseLockSkipped(L, main_domain) == L

\* The DELETE on domain_locks by main_domain.
ReleaseLock(L, main_domain) == {l \in L : l.main_domain # main_domain}

\* The job as complete_job leaves it.
Completed(job, success, error_code, error_message) ==
    IF success
    THEN [job EXCEPT !.status = SUCCEEDED, !.error_code = NoneVal,
                     !.error_message = NoSeq, !.finished_at = now]
    ELSE [job EXCEPT !.status = FAILED, !.error_code = error_code,
                     !.error_message = error_message, !.finished_at = now]

\* QueueService.complete_job
complete_job(job_id, success, error_code, error_message) ==
    LET i == get_job(jobs, job_id)
    IN  /\ resp' = CallResp("complete", 0)
        /\ IF i = 0 THEN UNCHANGED store
           ELSE /\ jobs' = [jobs EXCEPT ![i] =
                       Completed(jobs[i], success, error_code, error_message)]
                /\ locks' = ReleaseLock(locks, jobs[i].main_domain)

\* The job as requeue_job leaves it.
Requeued(job) == [job EXCEPT !.status = QUEUED, !.started_at = NoInt]

\* QueueService.requeue_job
requeue_job(job_id) ==
    LET i == get_job(jobs, job_id)
    IN  /\ resp' = CallResp("requeue", 0)
        /\ IF i = 0 THEN UNCHANGED store
           ELSE /\ locks' = ReleaseLock(locks, jobs[i].main_domain)
                /\ jobs' = [jobs EXCEPT ![i] = Requeued(jobs[i])]


\* ------------------------------------------------------------ worker/main
\* non_retryable as it would be if SSRF_BLOCKED were left out of the list.
non_retryable_without_ssrf ==
    {"INVALID_URL", "HTTP_4XX", "CAPTCHA_DETECTED", "DOMAIN_WAIT_TIMEOUT"}

\* The codes should_retry never retries.
non_retryable == {"INVALID_URL", "SSRF_BLOCKED", "HTTP_4XX", "CAPTCHA_DETECTED",
                  "DOMAIN_WAIT_TIMEOUT"}

\* should_retry as it would be if it compared attempts with max_retries + 1.
should_retry_one_more(job, error_code) ==
    IF error_code \in non_retryable THEN FALSE
    ELSE job.attempts <= job.max_retries + 1

\* Worker.should_retry, on the Job that claim_next_job returned.
should_retry(job, error_code) ==
    IF error_code \in non_retryable THEN FALSE
    ELSE job.attempts < job.max_retries

\* validate_redirects: "Make absolute if relative".  A location that starts
\* with '/' is put behind the scheme and the authority of the current URL.
Absolute(current, location) ==
    IF location[1] = "/"
    THEN current.scheme \o <<":", "/", "/">> \o current.netloc \o location
    ELSE location

\* validate_redirects, the body of its loop after the HEAD request: head is
\* the server's answer (an httpx.RequestError, a redirect with or without a
\* location, any other status), rest the answers to the requests that follow,
\* trail the targets adopted so far, requests the HEAD requests made.  The
\* result is what validate_redirects returns (status "ok", url) or raises.
RECURSIVE RedirectWalk(_, _, _, _, _, _)
Hop(current_url, redirect_url, trail, requests, head, rest, dns, max_redirects) ==
    IF head.kind # "redirect" \/ head.location = NoSeq
    THEN [status |-> "ok", url |-> current_url, trail |-> trail,
          requests |-> requests]
    ELSE IF SubmitChecks(redirect_url, dns) # "ok"
    THEN [status |-> SubmitChecks(redirect_url, dns), url |-> current_url,
          trail |-> trail, requests |-> requests]
    ELSE RedirectWalk(redirect_url, Append(trail, redirect_url), requests,
                      rest, dns, max_redirects)

\* validate_redirects, its loop: while redirect_count < max_redirects, one
\* HEAD request to the current URL.  A server that is asked more often than
\* heads has answers answers with a page.
RedirectWalk(current_url, trail, requests, heads, dns, max_redirects) ==
    IF Len(trail) >= max_redirects
    THEN [status |-> "ok", url |-> current_url, trail |-> trail,
          requests |-> requests]
    ELSE IF heads = <<>>
    THEN [status |-> "ok", url |-> current_url, trail |-> trail,
          requests |-> requests + 1]
    ELSE Hop(current_url,
             IF Head(heads).kind = "redirect" /\ Head(heads).location # NoSeq
             THEN Absolute(urlparse(current_url), Head(heads).location)
             ELSE NoSeq,
             trail, requests + 1, Head(heads), Tail(heads), dns, max_redirects)

\* validate_redirects as it would be if it followed one redirect more.
validate_redirects_one_more(u, heads, dns) ==
    RedirectWalk(u, <<>>, 0, heads, dns, DefaultMaxRedirects + 1)

\* validate_redirects(u), while the servers answer heads and the resolver
\* answers dns.
validate_redirects(u, heads, dns) ==
    RedirectWalk(u, <<>>, 0, heads, dns, DefaultMaxRedirects)

\* Worker.process_job after validate_redirects: walk is what it returned or
\* raised, render how render_to_pdf of the final URL ends ("ok", "timeout" for
\* asyncio.TimeoutError, "raise" for any other exception).  rendered is the URL
\* given to render_to_pdf, NoSeq when it was not called; the message of an
\* exception is written as its kind.
Verdict(job, walk, render) ==
    IF walk.status = "SSRFError"
    THEN [success |-> FALSE, error_code |-> "SSRF_BLOCKED",
          error_message |-> <<"SSRFError">>, rendered |-> NoSeq]
    ELSE IF walk.status # "ok"
    THEN [success |-> FALSE, error_code |-> "RENDER_FAILED",
          error_message |-> <<walk.status>>, rendered |-> NoSeq]
    ELSE IF render = "timeout"
    THEN [success |-> FALSE, error_code |-> "JOB_TIMEOUT",
          error_message |-> <<"Job exceeded time limit of ",
                              ToString(job.job_timeout_seconds), "s">>,
          rendered |-> walk.url]
    ELSE IF render = "raise"
    THEN [success |-> FALSE, error_code |-> "RENDER_FAILED",
          error_message |-> <<"render error">>, rendered |-> walk.url]
    ELSE [success |-> TRUE, error_code |-> NoneVal, error_message |-> NoSeq,
          rendered |-> walk.url]

\* Worker.process_job: the (success, error_code, error_message) it returns in
\* the surroundings web: the answers of the servers to the HEAD requests, the
\* answer of the resolver, and how the render ends.
process_job(job, web) ==
    Verdict(job, validate_redirects(job.normalized_url, web.heads, web.dns),
            web.render)

\* ------------------------------------------------------------------ inputs
NoOverrides ==
    [render_mode |-> NoneVal, navigation_timeout_seconds |-> NoInt,
     job_timeout_seconds |-> NoInt, max_domain_wait_seconds |-> NoInt,
     max_retries |-> NoInt, metadata |-> NoneVal]

\* The config overrides of the submissions to the queue.
QueueOverrides == {[NoOverrides EXCEPT !.max_retries = r] : r \in {NoInt, 1}}

\* A resolution that fails: validate_ssrf passes the URL on.
NoDNS == [gaierror |-> TRUE, addrs |-> {}]

\* The URLs of the specifications that call the queue in any order: two
\* fingerprints of one main_domain.
QueueURLs == {UrlA, UrlRoot}

\* The failures complete_job is told of.
Failures == {[error_code |-> "TEST_ERROR",
              error_message |-> <<"Test error message">>]}

NoFailure == [error_code |-> NoneVal, error_message |-> NoSeq]

\* A redirect to an address of 10/8.
RedirectPrivate ==
    [kind |-> "redirect",
     location |-> <<"http", ":", "/", "/", "10.0.0.1", "/", "a">>]

\* The surroundings of the worker loop's renders: the server answers with a
\* page or with a redirect to a private address, and the render ends in any
\* of its three ways.
WorkerWebs ==
    [heads : {<<>>, <<RedirectPrivate>>}, dns : {NoDNS},
     render : {"ok", "timeout", "raise"}]

\* The worker between two jobs: about to claim, holding no Job.
Idle == [pc |-> "claim", job_id |-> 0, attempts |-> 0, max_retries |-> 0,
         success |-> FALSE, error_code |-> NoneVal, error_message |-> NoSeq]

\* ------------------------------------------------------------------ clock
\* Time passes to the next UTC midnight.
NextDay ==
    /\ submission_date_of(now) < MaxDay
    /\ now' = (submission_date_of(now) + 1) * SecondsPerDay
    /\ UNCHANGED <<jobs, locks, resp, issued, submitters, worker, urlvars, aside>>

\* ------------------------------------------- the queue's public operations
InitStore ==
    /\ jobs = <<>>
    /\ locks = {}
    /\ now = 0
    /\ resp = CallResp("none", 0)
    /\ issued = {}
    /\ submitters = <<>>
    /\ worker = Idle
    /\ heartbeat = NoInt
    /\ claimers = <<>>
    /\ running = TRUE

Init ==
    /\ InitStore
    /\ url = NoSeq
    /\ variant = NoSeq
    /\ normalized = <<>>

\* POST /jobs: one create_job call (the store holds at most MaxJobs rows).
Submit(u, ov, dns) ==
    /\ create_job(u, ov, dns)
    /\ Len(jobs') <= MaxJobs
    /\ UNCHANGED <<now, submitters, worker, urlvars, aside>>

\* One claim_next_job call (a job is claimed at most MaxAttempts times).
ClaimNext ==
    /\ claim_next_job
    /\ \A i \in JobIds : jobs'[i].attempts <= MaxAttempts
    /\ UNCHANGED <<now, issued, submitters, worker, urlvars, aside>>

Complete(job_id, success, f) ==
    /\ complete_job(job_id, success, f.error_code, f.error_message)
    /\ UNCHANGED <<now, issued, submitters, worker, urlvars, aside>>

Requeue(job_id) ==
    /\ requeue_job(job_id)
    /\ UNCHANGED <<now, issued, submitters, worker, urlvars, aside>>

Next ==
    \/ \E u \in QueueURLs : Submit(u, NoOverrides, NoDNS)
    \/ ClaimNext
    \/ \E job_id \in 1..MaxJobs : Complete(job_id, TRUE, NoFailure)
    \/ \E job_id \in 1..MaxJobs, f \in Failures : Complete(job_id, FALSE, f)
    \/ \E job_id \in 1..MaxJobs : Requeue(job_id)
    \/ NextDay

\* Any sequence of submit, claim_next, complete and requeue calls, each run to
\* its end, while the days pass.
Spec == Init /\ [][Next]_vars

\* ---------------------------------------------------------- the worker loop
\* Worker.run, "Claim next job": the worker asks the queue for a job and keeps
\* the Job it is handed; handed none, it polls again.
WorkerClaim ==
    /\ running
    /\ worker.pc = "claim"
    /\ claim_next_job
    /\ \A i \in JobIds : jobs'[i].attempts <= MaxAttempts
    /\ worker' = IF resp'.job_id = 0 THEN worker
                 ELSE [worker EXCEPT
                          !.pc = "process",
                          !.job_id = resp'.job_id,
                          !.attempts = jobs'[resp'.job_id].attempts,
                          !.max_retries = jobs'[resp'.job_id].max_retries]
    /\ UNCHANGED <<now, issued, submitters, urlvars, aside>>

\* Worker.run, "Process job": process_job returns its verdict.
WorkerProcess ==
    /\ worker.pc = "process"
    /\ \E w \in WorkerWebs :
       \E o \in {process_job(jobs[worker.job_id], w)} :
          worker' = [worker EXCEPT !.pc = "update", !.success = o.success,
                                   !.error_code = o.error_code,
                                   !.error_message = o.error_message]
    /\ UNCHANGED <<jobs, locks, now, resp, issued, submitters, urlvars, aside>>

\* Worker.run, "Update job status": complete, or requeue when should_retry
\* says so.
WorkerUpdate ==
    /\ worker.pc = "update"
    /\ IF worker.success
       THEN complete_job(worker.job_id, TRUE, NoneVal, NoSeq)
       ELSE IF should_retry(worker, worker.error_code)
            THEN requeue_job(worker.job_id)
            ELSE complete_job(worker.job_id, FALSE,
                              OrDefaultStr(worker.error_code, "RENDER_FAILED"),
                              IF worker.error_message = NoSeq
                              THEN <<"Unknown error">>
                              ELSE worker.error_message)
    /\ worker' = Idle
    /\ UNCHANGED <<now, issued, submitters, urlvars, aside>>

NextWorker ==
    \/ \E u \in QueueURLs, ov \in QueueOverrides : Submit(u, ov, NoDNS)
    \/ WorkerClaim
    \/ WorkerProcess
    \/ WorkerUpdate
    \/ NextDay

\* The service as deployed: the API submits, and the one worker drives every
\* job through claim, render and complete-or-requeue.
SpecWorker == Init /\ [][NextWorker]_vars

\* ------------------------------------------------------- store errors
\* What a call that raised left behind: get_db_context rolls the session back
\* and re-raises, and Worker.run logs the exception and sleeps.
RaisedResp(op) ==
    [op |-> op, status |-> "OperationalError", url |-> NoSeq, job_id |-> 0,
     deduplicated |-> FALSE, branch |-> "none", prior |-> 0, first |-> FALSE]

\* Worker.run, "Claim next job", when the store raises: nothing is written and
\* the loop goes round to claim again.
WorkerClaimFails ==
    /\ running
    /\ worker.pc = "claim"
    /\ resp' = RaisedResp("claim")
    /\ UNCHANGED <<jobs, locks, now, issued, submitters, worker, urlvars, aside>>

\* Worker.run, "Update job status", when the store raises in complete_job or
\* requeue_job: the transaction is rolled back, "except Exception" of the loop
\* catches the error, and the next iteration starts with the claim of another
\* job.
WorkerUpdateFails ==
    /\ worker.pc = "update"
    /\ resp' = RaisedResp(IF worker.success \/ ~should_retry(worker,
                                                            worker.error_code)
                          THEN "complete" ELSE "requeue")
    /\ worker' = Idle
    /\ UNCHANGED <<jobs, locks, now, issued, submitters, urlvars, aside>>

NextStoreError ==
    \/ \E u \in QueueURLs : Submit(u, NoOverrides, NoDNS)
    \/ WorkerClaim
    \/ WorkerClaimFails
    \/ WorkerProcess
    \/ WorkerUpdate
    \/ WorkerUpdateFails

\* The worker loop over a store that may raise on any call of the worker.  The
\* loop runs as long as the process does: a step that can be taken is taken,
\* and no call fails every time it is made (the errors are transient).
SpecStoreError ==
    /\ Init
    /\ [][NextStoreError]_vars
    /\ WF_vars(WorkerClaim)
    /\ WF_vars(WorkerProcess)
    /\ WF_vars(WorkerUpdate)

\* ------------------------------------------------------ concurrent claims
\* The engine is SQLite: with_for_update(skip_locked=True) emits no lock, and
\* the session begins its transaction at the first write, so the SELECTs of
\* claim_next_job read the committed rows and other calls run between them
\* and the commit.
\*
\* A worker runs claim_next_job through its SELECTs on jobs: the call is in
\* flight with the session's copy of the candidate row and the time it read.
ClaimSelectJob ==
    /\ Len(claimers) < MaxClaimers
    /\ IF Candidate(jobs) = 0
       THEN resp' = CallResp("claim", 0) /\ UNCHANGED claimers
       ELSE /\ claimers' = Append(claimers,
                              [pc |-> "lock", job |-> jobs[Candidate(jobs)],
                               t |-> now, lock |-> FALSE])
            /\ UNCHANGED resp
    /\ UNCHANGED <<jobs, locks, now, issued, submitters, worker, urlvars,
                   heartbeat, running>>

\* The k-th call in flight runs its SELECT on domain_locks.
ClaimSelectLock(k) ==
    /\ k \in 1..Len(claimers)
    /\ claimers[k].pc = "lock"
    /\ claimers' = [claimers EXCEPT
                       ![k].pc = "commit",
                       ![k].lock =
                          LockOf(locks, claimers[k].job.main_domain) # {}]
    /\ UNCHANGED <<jobs, locks, now, resp, issued, submitters, worker, urlvars,
                   heartbeat, running>>

\* The rows as the commit of the call c leaves them: the UPDATE writes the
\* attributes the call assigned, computed from the session's copy of the row,
\* and the INSERT of the lock is refused (IntegrityError, rollback) when
\* domain_locks has a row of the main_domain, its primary key.
ClaimWrites(c) ==
    IF c.lock
    THEN IF c.t - c.job.created_at > c.job.max_domain_wait_seconds
         THEN /\ jobs' = [jobs EXCEPT
                            ![c.job.job_id].status = FAILED,
                            ![c.job.job_id].error_code = "DOMAIN_WAIT_TIMEOUT",
                            ![c.job.job_id].error_message =
                               <<"Exceeded max domain wait time: ",
                                 ToString(c.job.max_domain_wait_seconds), "s">>,
                            ![c.job.job_id].finished_at = c.t]
              /\ resp' = CallResp("claim", 0)
              /\ UNCHANGED locks
         ELSE /\ jobs' = IF c.job.status = WAITING_DOMAIN_LOCK THEN jobs
                         ELSE [jobs EXCEPT ![c.job.job_id].status =
                                              WAITING_DOMAIN_LOCK]
              /\ resp' = CallResp("claim", 0)
              /\ UNCHANGED locks
    ELSE IF LockOf(locks, c.job.main_domain) # {}
         THEN resp' = RaisedResp("claim") /\ UNCHANGED store
         ELSE /\ locks' = locks \cup
                    {[main_domain |-> c.job.main_domain,
                      job_id |-> c.job.job_id,
                      locked_at |-> c.t,
                      max_wait_seconds |-> c.job.max_domain_wait_seconds]}
              /\ jobs' = [jobs EXCEPT
                            ![c.job.job_id].status = RUNNING,
                            ![c.job.job_id].started_at = c.t,
                            ![c.job.job_id].attempts = c.job.attempts + 1]
              /\ resp' = CallResp("claim", c.job.job_id)

\* The k-th call in flight commits and returns: the Job, refreshed from its
\* row, when it acquired the lock, and None otherwise.
ClaimCommit(k) ==
    /\ k \in 1..Len(claimers)
    /\ claimers[k].pc = "commit"
    /\ ClaimWrites(claimers[k])
    /\ claimers' = [claimers EXCEPT
                       ![k].pc = IF resp'.job_id # 0 THEN "returned"
                                 ELSE resp'.status,
                       ![k].job = jobs'[claimers[k].job.job_id]]
    /\ UNCHANGED <<now, issued, submitters, worker, urlvars, heartbeat,
                   running>>

\* complete_job or requeue_job as a worker calls it for the job it runs.
FinishRunning(job_id) ==
    /\ job_id \in JobIds
    /\ jobs[job_id].status = RUNNING
    /\ Complete(job_id, TRUE, NoFailure) \/ Requeue(job_id)

NextClaimRace ==
    \/ \E u \in QueueURLs : Submit(u, NoOverrides, NoDNS)
    \/ ClaimSelectJob
    \/ \E k \in 1..MaxClaimers : ClaimSelectLock(k)
    \/ \E k \in 1..MaxClaimers : ClaimCommit(k)
    \/ \E job_id \in 1..MaxJobs : FinishRunning(job_id)

\* Two workers on one store: each claim_next_job call is three steps, its
\* SELECT on jobs, its SELECT on domain_locks and its commit, and the calls of
\* the other worker run between them.
SpecClaimRace == Init /\ [][NextClaimRace]_vars

\* ------------------------------------------------------------ shutdown
\* Worker.signal_handler: the termination signal clears the flag the loop
\* tests; whatever the loop is doing goes on.
SignalHandler ==
    /\ running
    /\ worker.pc \in {"claim", "process", "update"}
    /\ running' = FALSE
    /\ UNCHANGED <<jobs, locks, now, resp, issued, submitters, worker, urlvars,
                   heartbeat, claimers>>

\* Worker.run: "while self.running" finds the flag cleared, the loop ends and
\* "finally" closes the render service, which releases the browser.
WorkerExit ==
    /\ ~running
    /\ worker.pc = "claim"
    /\ worker' = [Idle EXCEPT !.pc = "closed"]
    /\ UNCHANGED <<jobs, locks, now, resp, issued, submitters, urlvars, aside>>

NextStop ==
    \/ \E u \in QueueURLs : Submit(u, NoOverrides, NoDNS)
    \/ WorkerClaim
    \/ WorkerClaimFails
    \/ WorkerProcess
    \/ WorkerUpdate
    \/ WorkerUpdateFails
    \/ SignalHandler
    \/ WorkerExit

\* The worker loop from start to graceful shutdown, over a store that may
\* raise on any call of the worker.
SpecStop == Init /\ [][NextStop]_vars

\* ------------------------------------------------------------ the render
\* Answers to a HEAD request that validate_redirects follows: a redirect to
\* another public site, and one to a path of the same site.
Followed ==
    { [kind |-> "redirect", location |-> UrlOther],
      [kind |-> "redirect", location |-> <<"/", "q">>] }

\* Answers that end the walk: a redirect to a private address, to a URL that
\* is not http(s), one without location, a page, and a network error.
Ending ==
    { RedirectPrivate, [kind |-> "redirect", location |-> UrlFtp],
      [kind |-> "redirect", location |-> NoSeq],
      [kind |-> "status", location |-> NoSeq],
      [kind |-> "RequestError", location |-> NoSeq] }

\* The answers to the successive HEAD requests of one walk, up to MaxHeads of
\* them: none is requested after an answer that ends the walk.
HeadSequences ==
    {<<>>} \cup
    UNION { { pre \o <<last>> : pre \in [1..k -> Followed],
                                last \in Followed \cup Ending } :
            k \in 0..(MaxHeads - 1) }

\* The worker processes the job it claimed in the surroundings w, and what
\* validate_redirects and process_job returned is kept.
Render(w) ==
    /\ worker.pc = "process"
    /\ \E o \in {process_job(jobs[worker.job_id], w)} :
          worker' = [worker EXCEPT !.pc = "update", !.success = o.success,
                                   !.error_code = o.error_code,
                                   !.error_message = o.error_message]
    /\ resp' = [op |-> "process_job", job_id |-> worker.job_id, web |-> w,
                walk |-> validate_redirects(jobs[worker.job_id].normalized_url,
                                            w.heads, w.dns),
                rendered |-> process_job(jobs[worker.job_id], w).rendered]
    /\ UNCHANGED <<jobs, locks, now, issued, submitters, urlvars, aside>>

NextRender ==
    \/ Submit(UrlA, NoOverrides, NoDNS)
    \/ WorkerClaim
    \/ \E w \in [heads : HeadSequences, dns : DNSAnswers,
                  render : {"ok", "timeout", "raise"}] : Render(w)

\* A job is submitted while the resolver fails, claimed, and processed
\* whatever the servers and the resolver answer then.
SpecRender == Init /\ [][NextRender]_vars

\* ------------------------------------------------------ crash and restart
\* The worker process dies: the Worker object and the Job it held are gone, the
\* rows of the store stay as they were.
Crash ==
    /\ worker.pc \in {"claim", "process", "update"}
    /\ worker' = [Idle EXCEPT !.pc = "down"]
    /\ UNCHANGED <<jobs, locks, now, resp, issued, submitters, urlvars, aside>>

\* main starts a new Worker: it holds no Job and enters the loop. The source
\* has no reconciliation of RUNNING rows (the store has no operation for it,
\* a Job row names no worker, no code is called WORKER_CRASHED), so the rows
\* are left as the crash left them.
Startup ==
    /\ worker.pc = "down"
    /\ worker' = Idle
    /\ UNCHANGED <<jobs, locks, now, resp, issued, submitters, urlvars, aside>>

NextCrash ==
    \/ \E u \in QueueURLs, ov \in QueueOverrides : Submit(u, ov, NoDNS)
    \/ WorkerClaim
    \/ WorkerProcess
    \/ WorkerUpdate
    \/ Crash
    \/ Startup

\* The deployed service with a worker process that may die and be restarted.
SpecCrash == Init /\ [][NextCrash]_vars

\* ------------------------------------------------- polling the queue
\* Time passes.
Tick(t) ==
    /\ t > now
    /\ now' = t
    /\ UNCHANGED <<jobs, locks, resp, issued, submitters, worker, urlvars, aside>>

\* POST /jobs: one create_job call (the store holds at most MaxQueued rows).
SubmitQueued(u) ==
    /\ create_job(u, NoOverrides, NoDNS)
    /\ Len(jobs') <= MaxQueued
    /\ UNCHANGED <<now, submitters, worker, urlvars, aside>>

\* complete_job as the worker calls it: for a job that claim_next_job handed
\* out and that is still RUNNING.
CompleteRunning(job_id, success, f) ==
    /\ job_id \in JobIds
    /\ jobs[job_id].status = RUNNING
    /\ Complete(job_id, success, f)

NextClaim ==
    \/ \E u \in {UrlA, UrlRoot, UrlOther} : SubmitQueued(u)
    \/ ClaimNext
    \/ \E job_id \in 1..MaxQueued : CompleteRunning(job_id, TRUE, NoFailure)
    \/ \E t \in {DefaultMaxDomainWait, DefaultMaxDomainWait + 1} : Tick(t)

\* Jobs of two domains are submitted, claim_next_job is polled, running jobs
\* are completed, and time passes up to and beyond the wait budget.
SpecClaim == Init /\ [][NextClaim]_vars

\* ------------------------------------------------------------- api/main
\* health_check, the database being reachable: the response for the heartbeat
\* row last_beat (none when the row is missing) read at time t.
health_check(last_beat, t) ==
    [op |-> "health",
     last_heartbeat |-> last_beat,
     age_seconds |-> IF last_beat = NoInt THEN NoInt ELSE t - last_beat,
     worker |-> IF last_beat = NoInt THEN "missing"
                ELSE IF t - last_beat < HeartbeatMaxAge THEN "healthy"
                ELSE "stale",
     status |-> IF last_beat # NoInt /\ t - last_beat < HeartbeatMaxAge
                THEN "healthy" ELSE "degraded"]

\* GET /healthz
HealthCheck ==
    /\ resp' = health_check(heartbeat, now)
    /\ UNCHANGED <<jobs, locks, now, issued, submitters, worker, urlvars,
                   heartbeat, claimers, running>>

\* heartbeat_loop: the row of worker-1 is created or refreshed, at the start
\* and then HeartbeatPeriod seconds after the last beat, or later.
Beat ==
    /\ heartbeat = NoInt \/ now >= heartbeat + HeartbeatPeriod
    /\ heartbeat' = now
    /\ UNCHANGED <<jobs, locks, now, resp, issued, submitters, worker, urlvars,
                   claimers, running>>

NextHealth ==
    \/ HealthCheck
    \/ Beat
    \/ \E t \in 1..MaxTime : Tick(t)

\* The health endpoint is asked while the worker's heartbeat loop runs, lags
\* or has stopped.
SpecHealth == Init /\ [][NextHealth]_vars

\* ------------------------------------------------- one domain's queue
NextFifo ==
    \/ \E u \in {UrlA, UrlRoot, https \o <<"example.com", "/", "q">>} :
          SubmitQueued(u)
    \/ ClaimNext
    \/ \E job_id \in 1..MaxQueued : CompleteRunning(job_id, TRUE, NoFailure)
    \/ \E t \in 1..2 : Tick(t)

\* Three pages of one domain are submitted at different times while
\* claim_next_job is polled and running jobs are completed.
SpecFifo == Init /\ [][NextFifo]_vars

\* -------------------------------------------------- two domains' queues
\* Two pages of one domain and two of another, in the order of submission.
Pages == <<UrlRoot, UrlA, UrlOther, https \o <<"other.com", "/">> >>

\* POST /jobs for the next page.
SubmitNextPage ==
    /\ Len(jobs) < Len(Pages)
    /\ create_job(Pages[Len(jobs) + 1], NoOverrides, NoDNS)
    /\ UNCHANGED <<now, submitters, worker, urlvars, aside>>

NextWait ==
    \/ SubmitNextPage
    \/ ClaimNext
    \/ \E job_id \in 1..Len(Pages) : CompleteRunning(job_id, TRUE, NoFailure)
    \/ \E t \in 1..2 : Tick(t)

\* Two jobs of each of two domains are submitted at different times while
\* claim_next_job is polled and running jobs are completed.
SpecWait == Init /\ [][NextWait]_vars

\* ------------------------------------------------------ the submissions
\* Overrides of every configuration field, and metadata.
AllOverrides ==
    [render_mode |-> "screenshot_to_pdf", navigation_timeout_seconds |-> 30,
     job_timeout_seconds |-> 60, max_domain_wait_seconds |-> 10,
     max_retries |-> 1, metadata |-> "{\"source\": \"test\"}"]

\* A URL, another spelling of it, a URL of another domain, and two URLs the
\* validations refuse.
SubmitURLs == {UrlA, UrlAVariant, UrlOther, UrlFtp, UrlMetadata}

\* The overrides a URL is submitted with: one spelling of the URL always comes
\* without overrides and another always with all of them, so that a repeated
\* submission of the fingerprint carries another configuration.  The URL of
\* the other domain also comes with max_retries = 0, the least value
\* JobSubmitRequest admits.
SubmitOverridesOf(u) ==
    IF u = UrlA THEN {NoOverrides}
    ELSE IF u = UrlAVariant THEN {AllOverrides}
    ELSE IF u = UrlOther
    THEN {NoOverrides, AllOverrides, [AllOverrides EXCEPT !.max_retries = 0]}
    ELSE {NoOverrides, AllOverrides}

NextSubmit ==
    \/ \E u \in SubmitURLs, dns \in DNSAnswers :
          \E ov \in SubmitOverridesOf(u) : Submit(u, ov, dns)
    \/ ClaimNext
    \/ \E job_id \in 1..MaxJobs : Complete(job_id, TRUE, NoFailure)

\* POST /jobs with valid and invalid URLs, with and without overrides, while
\* the jobs already queued are claimed and completed.
SpecSubmit == Init /\ [][NextSubmit]_vars

\* ------------------------------------------------- concurrent submissions
\* create_job up to its first SELECT, for a request that then waits: when the
\* SELECT finds no row the request is in flight, with the time it read.
Selected(u, ov, row, existing) ==
    IF existing # 0
    THEN ReturnExisting(u, row, existing) /\ UNCHANGED submitters
    ELSE /\ submitters' = Append(submitters, [url |-> u, ov |-> ov, t |-> now])
         /\ UNCHANGED <<jobs, resp, issued>>

SelectChecked(u, ov, status, row) ==
    IF status # "ok"
    THEN RaiseInvalid(u, row, status) /\ UNCHANGED submitters
    ELSE Selected(u, ov, row,
                  ExistingJob(jobs, row.normalized_url, row.submission_date))

\* A request runs create_job to the end of its first SELECT.
SubmitSelect(u, ov, dns) ==
    /\ Len(submitters) < MaxSubmitters
    /\ SelectChecked(u, ov, SubmitChecks(u, dns),
                     NewJob(Len(jobs) + 1, u, ov, now))
    /\ UNCHANGED <<locks, now, worker, urlvars, aside>>

\* submitters without its k-th request.
Without(k) ==
    SubSeq(submitters, 1, k - 1) \o SubSeq(submitters, k + 1, Len(submitters))

\* The k-th request in flight runs the rest of create_job: INSERT, commit, and
\* the except branch when the index refuses the row.
SubmitInsert(k) ==
    /\ k \in 1..Len(submitters)
    /\ InsertJob(submitters[k].url,
                 NewJob(Len(jobs) + 1, submitters[k].url, submitters[k].ov,
                        submitters[k].t))
    /\ Len(jobs') <= MaxJobs
    /\ submitters' = Without(k)
    /\ UNCHANGED <<locks, now, worker, urlvars, aside>>

NextRace ==
    \/ \E u \in RawURLs, dns \in DNSAnswers : SubmitSelect(u, NoOverrides, dns)
    \/ \E k \in 1..MaxSubmitters : SubmitInsert(k)
    \/ NextDay

\* API requests that interleave: each submit is two steps, its SELECT and its
\* INSERT, and other requests run between them.
SpecRace == Init /\ [][NextRace]_vars

\* ------------------------------------------------------- the SSRF check
\* An IPv6 literal as an authority writes it.
Bracketed(h) == <<"[">> \o h \o <<"]">>

\* The hosts validate_ssrf refuses by name or by number: localhost and the
\* metadata names in either case, and, for each network of PRIVATE_IP_RANGES,
\* literals inside it (of IPv6 ::1, fc00::1, fdff::1, fe80::1, febf::1 and
\* FE80::1).
BlockedHosts ==
    { <<"localhost">>, <<"LOCALHOST">>, <<"localhost.localdomain">>,
      <<"169.254.169.254">>, <<"metadata.google.internal">>,
      <<"METADATA.GOOGLE.INTERNAL">>,
      <<"10.0.0.1">>, <<"10.255.255.255">>, <<"172.16.0.1">>,
      <<"172.31.255.255">>, <<"192.168.1.1">>, <<"127.0.0.1">>,
      <<"127.255.255.255">>, <<"169.254.0.1">>,
      Bracketed(<<":", ":", "1">>), Bracketed(<<"fc00", ":", ":", "1">>),
      Bracketed(<<"fdff", ":", ":", "1">>), Bracketed(<<"fe80", ":", ":", "1">>),
      Bracketed(<<"febf", ":", ":", "1">>), Bracketed(<<"FE80", ":", ":", "1">>) }

\* IP literals outside every network: public addresses, and the addresses
\* next to each network on either side (of IPv6 ::2, fbff::1, fe00::1, fec0::1
\* and 2001:4860:4860::8888).
PublicLiterals ==
    { <<"8.8.8.8">>, <<"1.1.1.1">>, <<"9.255.255.255">>, <<"11.0.0.0">>,
      <<"172.15.255.255">>, <<"172.32.0.0">>, <<"192.167.255.255">>,
      <<"192.169.0.0">>, <<"126.255.255.255">>, <<"128.0.0.0">>,
      <<"169.253.255.255">>, <<"169.255.0.0">>,
      Bracketed(<<":", ":", "2">>), Bracketed(<<"fbff", ":", ":", "1">>),
      Bracketed(<<"fe00", ":", ":", "1">>), Bracketed(<<"fec0", ":", ":", "1">>),
      Bracketed(<<"2001", ":", "4860", ":", "4860", ":", ":", "8888">>) }

\* Host names that are no IP literal and none of the blocked names.
PublicNames == { <<"example.com">>, <<"other.com">> }

\* The URLs with a host of H: in either case of the scheme, with and without
\* user information, port and path.
UrlsOfHosts(H) ==
    { scheme \o <<":", "/", "/">> \o user \o h \o port \o path :
        h \in H, scheme \in { <<"http">>, <<"HTTPS">> },
        user \in { <<>>, <<"user", ":", "pw", "@">> },
        port \in { <<>>, <<":", "8080">> }, path \in { <<>>, <<"/", "a">> } }

\* The URL of the request: its host is one of the above, or ::ffff:10.0.0.1,
\* an address of 10/8 written as an IPv6 literal.
InitSsrf ==
    /\ InitStore
    /\ url \in UrlsOfHosts(BlockedHosts \cup PublicLiterals \cup PublicNames
                \cup {Bracketed(<<":", ":", "ffff", ":", "10.0.0.1">>)})
    /\ variant = NoSeq
    /\ normalized = <<>>

\* POST /jobs with the URL, while the resolver answers dns.
SubmitHost(dns) ==
    /\ resp.op = "none"
    /\ Submit(url, NoOverrides, dns)

NextSsrf == \E dns \in DNSAnswers : SubmitHost(dns)

\* One submission of one URL, whatever its host and the resolver's answer.
SpecSsrf == InitSsrf /\ [][NextSsrf]_vars

\* ---------------------------------------------------------- the normaliser
\* The URLs given to normalize_url: https://example.com followed by up to
\* MaxRest symbols.
UrlInputs ==
    {https \o <<"example.com">> \o rest :
        rest \in UNION {[1..k -> {"a", "/", ";", "?", "#"}] : k \in 0..MaxRest}}

\* str.upper on one symbol.
UpperSym(c) ==
    CASE c = "https" -> "HTTPS"
      [] c = "example.com" -> "EXAMPLE.COM"
      [] c = "a" -> "A"
      [] c = "frag" -> "FRAG"
      [] OTHER -> c

\* The URL with its first k symbols in capitals.
UpperTo(u, k) == [i \in 1..Len(u) |-> IF i <= k THEN UpperSym(u[i]) ELSE u[i]]

AuthorityEnd(s) == Len(s.scheme) + 3 + Len(s.netloc)

\* The URL with one more slash at the end of its path.
WithSlash(p) ==
    urlunparse(p.scheme, p.netloc, p.path \o <<"/">>, p.params, p.query,
               p.fragment)

\* The URL with another fragment: none when it has one, "frag" when not.
FragmentAt(u, i) == IF i # 0 THEN Before(u, i) ELSE u \o <<"#", "frag">>

Fragments(S) == S \cup {FragmentAt(x, Find(x, "#", 1)) : x \in S}

\* The URLs as they are, in capitals, and with scheme and authority in capitals.
Cases(S) ==
    S \cup {UpperTo(x, Len(x)) : x \in S}
      \cup {UpperTo(x, AuthorityEnd(urlsplit(x))) : x \in S}

\* The URLs that differ from u in a trailing slash of the path, in letter
\* case, in the fragment, or in several of them.
Variants(u) == Cases(Fragments({u, WithSlash(urlparse(u))})) \ {u}

InitUrl ==
    /\ InitStore
    /\ url \in UrlInputs
    /\ variant = NoSeq
    /\ normalized = <<>>

\* normalize_url is applied to the URL, and then to its own result.
Normalize ==
    /\ variant = NoSeq
    /\ Len(normalized) < MaxApply
    /\ normalized' = Append(normalized,
                            normalize_url(IF normalized = <<>> THEN url
                                          ELSE normalized[Len(normalized)]))
    /\ UNCHANGED <<jobs, locks, now, resp, issued, submitters, worker, url,
                   variant, aside>>

ChooseVariant(v) ==
    /\ variant = NoSeq
    /\ normalized = <<>>
    /\ v \in Variants(url)
    /\ variant' = v
    /\ UNCHANGED <<jobs, locks, now, resp, issued, submitters, worker, url,
                   normalized, aside>>

\* The URL is submitted, and then its variant.
SubmitUrl ==
    /\ variant # NoSeq
    /\ resp.op = "none"
    /\ Submit(url, NoOverrides, NoDNS)

SubmitVariant ==
    /\ resp.op = "submit"
    /\ resp.url = url
    /\ Submit(variant, NoOverrides, NoDNS)

NextUrl ==
    \/ Normalize
    \/ \E v \in Variants(url) : ChooseVariant(v)
    \/ SubmitUrl
    \/ SubmitVariant

\* normalize_url over every URL scheme://host followed by up to MaxRest
\* symbols, and the submission of a URL and of one of its variants.
SpecUrl == InitUrl /\ [][NextUrl]_vars

\* ================================================================== claims
\* C1: whatever submit, claim_next, complete and requeue calls are made, every
\* main_domain has at most one job with status RUNNING.
OneRunningPerDomain ==
    \A i, k \in JobIds :
        (/\ jobs[i].status = RUNNING
         /\ jobs[k].status = RUNNING
         /\ jobs[i].main_domain = jobs[k].main_domain) => i = k

\* C2: a job is RUNNING if and only if exactly one DomainLock row carries its
\* job_id, and every DomainLock row is held by a RUNNING job.
RunningIffOneLock ==
    /\ \A i \in JobIds :
          jobs[i].status = RUNNING
             <=> Cardinality({l \in locks : l.job_id = jobs[i].job_id}) = 1
    /\ \A l \in locks :
          \E i \in JobIds : jobs[i].job_id = l.job_id /\ jobs[i].status = RUNNING

\* C3: no two Job rows share the pair (normalized_url, submission_date), in
\* whatever order the submit requests run their SELECTs and INSERTs.
OneRowPerFingerprintAndDay ==
    \A i, k \in JobIds :
        (/\ jobs[i].normalized_url = jobs[k].normalized_url
         /\ jobs[i].submission_date = jobs[k].submission_date) => i = k

\* A request lost the race: its INSERT was refused and it returned the row of
\* the request that won.
RaceLoserDeduplicated ==
    /\ resp.op = "submit"
    /\ resp.branch = "race"
    /\ resp.deduplicated
    /\ \E i \in JobIds : jobs[i].job_id = resp.job_id

\* C11: when submits of one fingerprint interleave (each SELECTs before any
\* INSERTs), no call fails; the call whose INSERT goes through is answered with
\* the new row's job_id and deduplicated = FALSE; a call whose INSERT is refused
\* is answered with the job_id of the one row of its fingerprint and day and
\* deduplicated = TRUE.
RaceBothGetSurvivingRow ==
    resp.op = "submit" =>
        /\ resp.status # "IntegrityError"
        /\ resp.branch = "created" =>
              (/\ resp.job_id \in JobIds
               /\ ~resp.deduplicated
               /\ jobs[resp.job_id].normalized_url = normalize_url(resp.url))
        /\ resp.branch = "race" =>
              (/\ resp.job_id \in JobIds
               /\ resp.deduplicated
               /\ jobs[resp.job_id].normalized_url = normalize_url(resp.url)
               /\ \A i \in JobIds :
                     (/\ jobs[i].normalized_url
                            = jobs[resp.job_id].normalized_url
                      /\ jobs[i].submission_date
                            = jobs[resp.job_id].submission_date)
                         => i = resp.job_id)

\* Two requests for one fingerprint both SELECTed before either INSERTed: the
\* first was answered with the new row, the second (another spelling of the
\* URL) lost the race and was answered with the same row.
BothRacersAnswered ==
    /\ resp.op = "submit"
    /\ resp.branch = "race"
    /\ resp.url = UrlAVariant
    /\ submitters = <<>>
    /\ Len(jobs) = 1
    /\ \E r \in issued : r.url = UrlA /\ r.job_id = resp.job_id

\* C12: a submit whose URL fails validate_url_format or validate_ssrf is
\* answered 400 with that error, and no row of jobs or of domain_locks is added
\* or changed.
InvalidSubmitLeavesStore ==
    [][\A u \in SubmitURLs, dns \in DNSAnswers :
          \A ov \in SubmitOverridesOf(u) :
             (/\ resp'.op = "submit"
              /\ resp'.url = u
              /\ SubmitChecks(u, dns) # "ok"
              /\ Submit(u, ov, dns))
                 => (/\ jobs' = jobs
                     /\ locks' = locks
                     /\ resp'.status = IF validate_url_format(u) # "ok"
                                        THEN "ValueError" ELSE "SSRFError"
                     /\ http_status(resp'.status) = 400
                     /\ resp'.job_id = 0)]_vars

\* The metadata URL was refused while the store held a running job and its
\* lock.
MetadataSubmitRejected ==
    /\ resp.op = "submit"
    /\ resp.url = UrlMetadata
    /\ resp.status = "SSRFError"
    /\ locks # {}
    /\ \E i \in JobIds : jobs[i].status = RUNNING

\* The row create_job's SELECT finds for the URL u today, 0 for none.
FoundRow(u) == ExistingJob(jobs, normalize_url(u), submission_date_of(now))

\* C13: a submit that finds the row of its fingerprint and day returns it as
\* deduplicated and changes nothing: every row of jobs, the found one with its
\* status, attempts, timestamps and configuration included, and every lock
\* stay as they are, whatever overrides and metadata the call carries.
ExistingSubmitMutatesNothing ==
    [][\A u \in SubmitURLs, dns \in DNSAnswers :
          \A ov \in SubmitOverridesOf(u) :
             (/\ resp'.op = "submit"
              /\ resp'.url = u
              /\ SubmitChecks(u, dns) = "ok"
              /\ FoundRow(u) # 0
              /\ Submit(u, ov, dns))
                 => (/\ jobs' = jobs
                     /\ locks' = locks
                     /\ resp'.deduplicated
                     /\ resp'.job_id = FoundRow(u))]_vars

\* A fingerprint submitted without overrides is submitted again, with every
\* override and metadata, while its job runs: the row keeps its defaults.
ResubmittedWithOtherConfig ==
    /\ resp.op = "submit"
    /\ resp.branch = "existing"
    /\ resp.url = UrlAVariant
    /\ jobs[resp.job_id].status = RUNNING
    /\ jobs[resp.job_id].max_retries = DefaultMaxRetries
    /\ jobs[resp.job_id].metadata_json = NoneVal

\* Rows i and k of J are of one main_domain, and i was submitted before k.
SubmittedBefore(J, i, k) == i < k /\ J[i].main_domain = J[k].main_domain

\* Row q is of another main_domain than row i, and is QUEUED.
OtherDomainQueued(q, i) ==
    jobs[q].main_domain # jobs[i].main_domain /\ jobs[q].status = QUEUED

\* C14: with p1 and p2 of one domain submitted in that order and q of another
\* domain, p2 is RUNNING only once p1 has run and ended; while p1 is RUNNING a
\* claim_next never returns p2, and returns q (RUNNING) as soon as q is the
\* oldest QUEUED job; once p1 has ended, a claim_next returns p2 in RUNNING,
\* unless it returns a job of the other domain that was still QUEUED.
ClaimsInDomainOrder ==
    [][\A i, k \in 1..Len(jobs') :
          SubmittedBefore(jobs', i, k) =>
             /\ jobs'[k].status = RUNNING => jobs'[i].status \in Terminal
             /\ (resp'.op = "claim" /\ ClaimNext /\ jobs[i].status = RUNNING) =>
                   /\ resp'.job_id # k
                   /\ \A q \in JobIds :
                         (/\ OtherDomainQueued(q, i)
                          /\ (jobs[k].status # QUEUED \/ q < k))
                             => (resp'.job_id = q /\ jobs'[q].status = RUNNING)
             /\ (/\ resp'.op = "claim"
                 /\ ClaimNext
                 /\ jobs[i].status \in Terminal
                 /\ jobs[k].status \in {QUEUED, WAITING_DOMAIN_LOCK}) =>
                   \/ resp'.job_id = k /\ jobs'[k].status = RUNNING
                   \/ \E q \in JobIds :
                         OtherDomainQueued(q, i) /\ resp'.job_id = q]_vars

\* q was claimed while p1 ran, p1 has succeeded since, and the last claim_next
\* returned p2.
DomainOrderShown ==
    \E i, k, q \in JobIds :
        /\ SubmittedBefore(jobs, i, k)
        /\ jobs[q].main_domain # jobs[i].main_domain
        /\ jobs[i].status = SUCCEEDED
        /\ jobs[q].status = RUNNING
        /\ jobs[q].started_at < jobs[i].finished_at
        /\ jobs[k].status = RUNNING
        /\ jobs[k].started_at >= jobs[i].finished_at
        /\ resp.op = "claim"
        /\ resp.job_id = k

\* What claim_next_job does to its candidate c when c's domain is locked.
LockedStep(c) ==
    /\ locks' = locks
    /\ resp'.job_id = 0
    /\ \A i \in JobIds \ {c} : jobs'[i] = jobs[i]
    /\ jobs'[c].attempts = jobs[c].attempts
    /\ IF now - jobs[c].created_at > jobs[c].max_domain_wait_seconds
       THEN /\ jobs'[c].status = FAILED
            /\ jobs'[c].error_code = "DOMAIN_WAIT_TIMEOUT"
            /\ jobs'[c].finished_at = now
       ELSE /\ jobs'[c].status = WAITING_DOMAIN_LOCK
            /\ jobs'[c].error_code = jobs[c].error_code
            /\ jobs'[c].finished_at = jobs[c].finished_at

\* C15: when the candidate of claim_next finds its main_domain locked, it
\* becomes FAILED with DOMAIN_WAIT_TIMEOUT and finished_at = now if
\* now - created_at exceeds its max_domain_wait_seconds, and otherwise (the
\* budget's last second included) becomes or stays WAITING_DOMAIN_LOCK; no lock
\* is created or deleted, attempts stays, and none is returned.
LockedCandidateWaitsOrFails ==
    [][(/\ resp'.op = "claim"
        /\ ClaimNext
        /\ Candidate(jobs) # 0
        /\ LockOf(locks, jobs[Candidate(jobs)].main_domain) # {})
            => LockedStep(Candidate(jobs))]_vars

\* A job that never ran has failed on a claim_next for having waited longer
\* than its budget, and the lock of its domain is still held.
DomainWaitTimedOut ==
    /\ resp.op = "claim"
    /\ resp.job_id = 0
    /\ \E i \in JobIds :
          /\ jobs[i].status = FAILED
          /\ jobs[i].error_code = "DOMAIN_WAIT_TIMEOUT"
          /\ jobs[i].finished_at = now
          /\ jobs[i].attempts = 0
          /\ LockOf(locks, jobs[i].main_domain) # {}

\* C16: after a render failure with a retryable code the worker requeues the
\* job if attempts < max_retries + 1 and completes it as FAILED otherwise.
RetryableRequeuedWithinBudget ==
    [][(/\ worker.pc = "update"
        /\ WorkerUpdate
        /\ ~worker.success
        /\ worker.error_code \in {"JOB_TIMEOUT", "RENDER_FAILED"})
            => IF jobs[worker.job_id].attempts
                      < jobs[worker.job_id].max_retries + 1
               THEN jobs'[worker.job_id].status = QUEUED
               ELSE jobs'[worker.job_id].status = FAILED]_vars

\* The error codes the specification calls terminal.
TerminalCodes == {"INVALID_URL", "SSRF_BLOCKED", "HTTP_4XX", "CAPTCHA_DETECTED",
                  "DOMAIN_WAIT_TIMEOUT"}

\* C17: for the job the worker holds after a failed render, whatever its
\* attempts and max_retries, should_retry refuses every terminal code; and when
\* the render failed with a terminal code the worker completes the job as
\* FAILED with that code, without another attempt.
TerminalCodeFailsAtOnce ==
    [][(worker.pc = "update" /\ WorkerUpdate /\ ~worker.success)
          => (/\ \A code \in TerminalCodes : ~should_retry(worker, code)
              /\ worker.error_code \in TerminalCodes =>
                    (/\ jobs'[worker.job_id].status = FAILED
                     /\ jobs'[worker.job_id].error_code = worker.error_code
                     /\ jobs'[worker.job_id].attempts = worker.attempts
                     /\ LockOf(locks', jobs[worker.job_id].main_domain) = {}))]_vars

\* A job whose first render was blocked by the SSRF check is FAILED with
\* SSRF_BLOCKED after one attempt, its retry budget unused.
BlockedOnFirstAttempt ==
    \E i \in JobIds : /\ jobs[i].status = FAILED
                      /\ jobs[i].error_code = "SSRF_BLOCKED"
                      /\ jobs[i].attempts = 1
                      /\ jobs[i].max_retries = DefaultMaxRetries

\* C18: when the worker starts again after a crash, every job the crash left
\* RUNNING is moved to QUEUED with its DomainLock released if its attempts are at
\* most max_retries + 1, and to FAILED with WORKER_CRASHED otherwise.
StartupReconcilesRunning ==
    [][(worker.pc = "down" /\ Startup)
          => \A i \in JobIds :
                jobs[i].status = RUNNING =>
                   IF jobs[i].attempts <= jobs[i].max_retries + 1
                   THEN /\ jobs'[i].status = QUEUED
                        /\ LockOf(locks', jobs[i].main_domain) = {}
                   ELSE /\ jobs'[i].status = FAILED
                        /\ jobs'[i].error_code = "WORKER_CRASHED"]_vars

\* C19: a submitted URL is refused with an SSRF error when its host is a
\* metadata host name, localhost or localhost.localdomain, or an IP literal
\* inside one of the eight networks, whatever its scheme's case, user
\* information, port and path; with a public IP literal as host it is accepted
\* and its job is queued.
LiteralHostsJudged ==
    resp.op = "submit" =>
        /\ url \in UrlsOfHosts(BlockedHosts)
              => resp.status = "SSRFError" /\ jobs = <<>>
        /\ url \in UrlsOfHosts(PublicLiterals)
              => resp.status = "ok" /\ Len(jobs) = 1

\* The URL of the last address of 172.16/12, with user information, a port
\* and a path, was refused.
PrivateLiteralRefused ==
    /\ resp.op = "submit"
    /\ resp.status = "SSRFError"
    /\ url = <<"http", ":", "/", "/", "user", ":", "pw", "@", "172.31.255.255",
               ":", "8080", "/", "a">>

\* C20: a submitted URL whose host is a name, no IP literal, is refused with
\* an SSRF error exactly when the resolver answers and one of the addresses it
\* answers lies in a blocked network; when the resolution fails the URL is
\* accepted.
ResolvedHostJudged ==
    [][\A dns \in DNSAnswers :
          (/\ resp'.op = "submit"
           /\ url \in UrlsOfHosts(PublicNames)
           /\ SubmitHost(dns))
             => resp'.status =
                   IF ~dns.gaierror /\ dns.addrs \cap BlockedHosts # {}
                   THEN "SSRFError" ELSE "ok"]_vars

\* The number of answers of heads that validate_redirects may follow: those
\* before the first answer that is no redirect to a public or a relative URL.
FollowedFirst(heads) ==
    Min({k \in 1..Len(heads) : heads[k] \notin Followed} \cup {Len(heads) + 1})
        - 1

\* What the walk from u over heads has to return, stop being the index of the
\* answer that ends it (beyond heads: a page).
WalkJudged(u, heads, dns, walk, stop) ==
    /\ Len(walk.trail) = Min({stop - 1, DefaultMaxRedirects})
    /\ walk.requests <= DefaultMaxRedirects
    /\ \A k \in 1..Len(walk.trail) :
          /\ validate_url_format(walk.trail[k]) = "ok"
          /\ validate_ssrf(walk.trail[k], dns) = "ok"
          /\ walk.trail[k] =
                IF heads[k].location = UrlOther THEN UrlOther
                ELSE IF k > 1 /\ hostname(walk.trail[k - 1]) = <<"other.com">>
                THEN https \o <<"other.com", "/", "q">>
                ELSE https \o <<"example.com", "/", "q">>
    /\ walk.url = IF walk.trail = <<>> THEN u ELSE walk.trail[Len(walk.trail)]
    /\ walk.status =
          IF stop > DefaultMaxRedirects \/ stop > Len(heads) THEN "ok"
          ELSE IF heads[stop] = RedirectPrivate THEN "SSRFError"
          ELSE IF heads[stop].location = UrlFtp THEN "ValueError"
          ELSE "ok"

OwnUrlRecheckedAtRender ==
    (/\ resp.op = "process_job"
     /\ ~resp.web.dns.gaierror
     /\ resp.web.dns.addrs \cap BlockedHosts # {})
        => (resp.rendered = NoSeq /\ worker.error_code = "SSRF_BLOCKED")

\* C23: a complete or requeue call that takes a job out of RUNNING leaves no
\* DomainLock row for the job's main_domain.
LockReleasedOnLeavingRunning ==
    [][resp'.op \in {"complete", "requeue"} =>
          \A i \in JobIds :
             (jobs[i].status = RUNNING /\ jobs'[i].status # RUNNING)
                => LockOf(locks', jobs[i].main_domain) = {}]_vars

\* A job claimed once was completed with success while a second job was
\* waiting for its domain: the lock is gone and the waiter may be claimed.
CompletedJobHoldsNoLock ==
    /\ resp.op = "complete"
    /\ \E i, k \in JobIds :
          /\ jobs[i].status = SUCCEEDED
          /\ jobs[i].attempts = 1
          /\ jobs[i].started_at # NoInt
          /\ jobs[k].status = WAITING_DOMAIN_LOCK
          /\ jobs[k].main_domain = jobs[i].main_domain
          /\ LockOf(locks, jobs[i].main_domain) = {}

\* C24: the timestamps of every job are coherent: created_at <= started_at <=
\* finished_at wherever both are set, a SUCCEEDED or FAILED job has finished_at
\* set, and it has no started_at only when it is FAILED with
\* DOMAIN_WAIT_TIMEOUT.
TimestampsCoherent ==
    \A i \in JobIds :
       /\ jobs[i].started_at # NoInt => jobs[i].created_at <= jobs[i].started_at
       /\ jobs[i].finished_at # NoInt => jobs[i].created_at <= jobs[i].finished_at
       /\ (jobs[i].started_at # NoInt /\ jobs[i].finished_at # NoInt)
             => jobs[i].started_at <= jobs[i].finished_at
       /\ jobs[i].status \in {SUCCEEDED, FAILED} =>
             /\ jobs[i].finished_at # NoInt
             /\ jobs[i].started_at = NoInt =>
                   (/\ jobs[i].status = FAILED
                    /\ jobs[i].error_code = "DOMAIN_WAIT_TIMEOUT")

\* C25: a claim_next_job call whose candidate's domain has no lock adds the
\* lock row of that domain naming the job, makes the job RUNNING with
\* started_at = now and one attempt more, returns it and leaves every other row;
\* and in any step a job's attempts start at 0, grow by one when the job enters
\* RUNNING and change in no other way, so that attempts counts the job's
\* transitions into RUNNING.
ClaimCountsAttempt ==
    [][/\ (/\ resp'.op = "claim"
           /\ Candidate(jobs) # 0
           /\ LockOf(locks, jobs[Candidate(jobs)].main_domain) = {})
          => /\ resp'.job_id = Candidate(jobs)
             /\ locks' = locks \cup
                   {[main_domain |-> jobs[Candidate(jobs)].main_domain,
                     job_id |-> Candidate(jobs),
                     locked_at |-> now,
                     max_wait_seconds |->
                        jobs[Candidate(jobs)].max_domain_wait_seconds]}
             /\ jobs' = [jobs EXCEPT
                            ![Candidate(jobs)].status = RUNNING,
                            ![Candidate(jobs)].started_at = now,
                            ![Candidate(jobs)].attempts =
                                jobs[Candidate(jobs)].attempts + 1]
       /\ \A i \in 1..Len(jobs') :
             jobs'[i].attempts =
                IF i > Len(jobs) THEN 0
                ELSE IF jobs[i].status # RUNNING /\ jobs'[i].status = RUNNING
                THEN jobs[i].attempts + 1
                ELSE jobs[i].attempts]_vars

\* A job that was requeued after its first claim has been claimed again: it is
\* RUNNING on its second attempt and holds its domain's lock.
ClaimedAgainAfterRequeue ==
    /\ resp.op = "claim"
    /\ resp.job_id # 0
    /\ jobs[resp.job_id].status = RUNNING
    /\ jobs[resp.job_id].attempts = 2
    /\ jobs[resp.job_id].started_at = now
    /\ \E l \in locks : l.job_id = resp.job_id

\* A complete_job call on a RUNNING job leaves it with finished_at = now and
\* either SUCCEEDED without error fields or FAILED with the code and message
\* of one of the failures it can be told of, and changes no other field.
CompleteRunningSetsOutcome ==
    [][resp'.op = "complete" =>
          \A i \in JobIds :
             (jobs[i].status = RUNNING /\ jobs'[i] # jobs[i]) =>
                \/ jobs'[i] = [jobs[i] EXCEPT !.status = SUCCEEDED,
                                              !.error_code = NoneVal,
                                              !.error_message = NoSeq,
                                              !.finished_at = now]
                \/ \E f \in Failures :
                      jobs'[i] = [jobs[i] EXCEPT
                                     !.status = FAILED,
                                     !.error_code = f.error_code,
                                     !.error_message = f.error_message,
                                     !.finished_at = now]]_vars

\* C26: complete_job gives a RUNNING job its outcome (above), and in
\* consequence only FAILED jobs carry an error_code.
ErrorCodeOnlyOnFailed ==
    \A i \in JobIds : jobs[i].error_code # NoneVal => jobs[i].status = FAILED

\* C27: the row a claim_next_job call returns or changes is a QUEUED row with
\* the smallest created_at of the QUEUED rows if any row is QUEUED, and else a
\* WAITING_DOMAIN_LOCK row with the smallest created_at of the waiting rows;
\* with no row of either status the call returns none and changes nothing.
CandidateIsOldestQueuedFirst ==
    [][(resp'.op = "claim" /\ ClaimNext) =>
          /\ \A i \in JobIds :
                (jobs'[i] # jobs[i] \/ resp'.job_id = i) =>
                   /\ jobs[i].status =
                         IF \E k \in JobIds : jobs[k].status = QUEUED
                         THEN QUEUED ELSE WAITING_DOMAIN_LOCK
                   /\ \A k \in JobIds :
                         jobs[k].status = jobs[i].status
                            => jobs[i].created_at <= jobs[k].created_at
          /\ (\A k \in JobIds :
                 jobs[k].status \notin {QUEUED, WAITING_DOMAIN_LOCK})
                => (resp'.job_id = 0 /\ UNCHANGED store)
          /\ (\E k \in JobIds : jobs[k].status = QUEUED)
                => \E i \in JobIds : jobs'[i] # jobs[i]]_vars

\* The last claim_next returned a job submitted later than a job that is
\* still waiting for its domain: the QUEUED row went first.
QueuedTakenBeforeOlderWaiter ==
    /\ resp.op = "claim"
    /\ resp.job_id # 0
    /\ jobs[resp.job_id].status = RUNNING
    /\ jobs[resp.job_id].attempts = 1
    /\ \E i \in JobIds :
          /\ jobs[i].status = WAITING_DOMAIN_LOCK
          /\ jobs[i].created_at < jobs[resp.job_id].created_at

\* C28: no job becomes RUNNING while a job of the same main_domain with a
\* smaller created_at is QUEUED or WAITING_DOMAIN_LOCK.
DequeuedInCreatedOrder ==
    [][\A k \in JobIds :
          (jobs[k].status # RUNNING /\ jobs'[k].status = RUNNING) =>
             \A i \in JobIds :
                (/\ jobs[i].main_domain = jobs[k].main_domain
                 /\ jobs[i].created_at < jobs[k].created_at)
                    => jobs[i].status \notin {QUEUED, WAITING_DOMAIN_LOCK}]_vars

\* C29: a row is created QUEUED, and a step that changes a row's status takes
\* it from QUEUED to WAITING_DOMAIN_LOCK, from QUEUED or WAITING_DOMAIN_LOCK to
\* RUNNING (a claim that inserts the domain's lock), from RUNNING to
\* SUCCEEDED, FAILED or QUEUED (a requeue), or, in a claim_next_job call, from
\* QUEUED or WAITING_DOMAIN_LOCK to FAILED with DOMAIN_WAIT_TIMEOUT.
OnlyListedTransitions ==
    [][\A i \in 1..Len(jobs') :
          IF i > Len(jobs) THEN jobs'[i].status = QUEUED
          ELSE jobs'[i].status # jobs[i].status =>
                 \/ /\ jobs[i].status = QUEUED
                    /\ jobs'[i].status = WAITING_DOMAIN_LOCK
                 \/ /\ jobs[i].status \in {QUEUED, WAITING_DOMAIN_LOCK}
                    /\ jobs'[i].status = RUNNING
                    /\ resp'.op = "claim"
                    /\ LockOf(locks, jobs[i].main_domain) = {}
                 \/ /\ jobs[i].status = RUNNING
                    /\ jobs'[i].status \in {SUCCEEDED, FAILED}
                    /\ resp'.op = "complete"
                 \/ /\ jobs[i].status = RUNNING
                    /\ jobs'[i].status = QUEUED
                    /\ resp'.op = "requeue"
                 \/ /\ jobs[i].status \in {QUEUED, WAITING_DOMAIN_LOCK}
                    /\ jobs'[i].status = FAILED
                    /\ jobs'[i].error_code = "DOMAIN_WAIT_TIMEOUT"
                    /\ resp'.op = "claim"]_vars

\* Row i waits for a domain that is locked and has waited longer than its
\* max_domain_wait_seconds.
Overdue(i) ==
    /\ jobs[i].status = WAITING_DOMAIN_LOCK
    /\ LockOf(locks, jobs[i].main_domain) # {}
    /\ now - jobs[i].created_at > jobs[i].max_domain_wait_seconds

\* C30: a job that waits for a locked domain beyond its budget is failed with
\* DOMAIN_WAIT_TIMEOUT after finitely many claim_next polls, however many jobs
\* are submitted meanwhile.  The store of the model is bounded and its
\* submissions end; the step the bound rests on is checked: while such a job
\* exists, a poll deals with a waiting row and never with a QUEUED row
\* submitted since, so that the polls before the job's turn are bounded by the
\* waiters ahead of it.
OverdueWaiterNotPassedOver ==
    [][(resp'.op = "claim" /\ ClaimNext /\ \E i \in JobIds : Overdue(i)) =>
          \A k \in JobIds :
             jobs'[k] # jobs[k] => jobs[k].status = WAITING_DOMAIN_LOCK]_vars

\* C36: the row a submit creates carries every config override of the request
\* as given, max_retries = 0 included, and the setting's default for each
\* override the request leaves out.
OverridesStoredVerbatim ==
    [][\A u \in SubmitURLs, dns \in DNSAnswers :
          \A ov \in SubmitOverridesOf(u) :
             (/\ resp'.op = "submit"
              /\ resp'.url = u
              /\ resp'.branch = "created"
              /\ Submit(u, ov, dns))
                 => /\ jobs'[resp'.job_id].render_mode =
                          IF ov.render_mode = NoneVal THEN "print_to_pdf"
                          ELSE ov.render_mode
                    /\ jobs'[resp'.job_id].navigation_timeout_seconds =
                          IF ov.navigation_timeout_seconds = NoInt
                          THEN DefaultNavigationTimeout
                          ELSE ov.navigation_timeout_seconds
                    /\ jobs'[resp'.job_id].job_timeout_seconds =
                          IF ov.job_timeout_seconds = NoInt
                          THEN DefaultJobTimeout ELSE ov.job_timeout_seconds
                    /\ jobs'[resp'.job_id].max_domain_wait_seconds =
                          IF ov.max_domain_wait_seconds = NoInt
                          THEN DefaultMaxDomainWait
                          ELSE ov.max_domain_wait_seconds
                    /\ jobs'[resp'.job_id].max_retries =
                          IF ov.max_retries = NoInt THEN DefaultMaxRetries
                          ELSE ov.max_retries]_vars

\* C33: the health response reports the worker healthy when the heartbeat it
\* read is at most 30 s old (30 s included), stale when it is older and missing
\* when there is no heartbeat row, and its overall status is healthy exactly
\* when the worker is.
HealthAtThirtySeconds ==
    resp.op = "health" =>
        /\ resp.worker =
              IF resp.last_heartbeat = NoInt THEN "missing"
              ELSE IF resp.age_seconds <= 30 THEN "healthy"
              ELSE "stale"
        /\ resp.status = "healthy" <=> resp.worker = "healthy"

\* A render that outlasts job_timeout_seconds makes process_job return the
\* failure JOB_TIMEOUT, with the time limit in its message.
RenderTimeoutReported ==
    (/\ resp.op = "process_job"
     /\ resp.walk.status = "ok"
     /\ resp.web.render = "timeout")
        => /\ ~worker.success
           /\ worker.error_code = "JOB_TIMEOUT"
           /\ worker.error_message =
                 <<"Job exceeded time limit of ",
                   ToString(jobs[resp.job_id].job_timeout_seconds), "s">>

\* C32: a render cut off at job_timeout_seconds is reported JOB_TIMEOUT
\* (above), and the worker treats JOB_TIMEOUT as retryable: it requeues the job
\* while the retry budget remains (attempts < max_retries + 1) and completes it
\* as FAILED with JOB_TIMEOUT once the budget is spent; either way it holds no
\* job afterwards.
TimedOutJobRetriedWithinBudget ==
    [][(/\ worker.pc = "update"
        /\ WorkerUpdate
        /\ worker.error_code = "JOB_TIMEOUT")
            => /\ worker' = Idle
               /\ IF jobs[worker.job_id].attempts
                         < jobs[worker.job_id].max_retries + 1
                  THEN jobs'[worker.job_id].status = QUEUED
                  ELSE /\ jobs'[worker.job_id].status = FAILED
                       /\ jobs'[worker.job_id].error_code = "JOB_TIMEOUT"]_vars

\* C35: a claim_next_job call made when no job is QUEUED and some
\* WAITING_DOMAIN_LOCK job's main_domain has no lock, while an older job waits
\* for another domain that is locked, either returns a job or changes a row,
\* so that repeating the call reaches the claimable job: it does not return
\* none and leave everything as it was.
ClaimableWaiterNotBlocked ==
    [][(/\ resp'.op = "claim"
        /\ ClaimNext
        /\ \A k \in JobIds : jobs[k].status # QUEUED
        /\ \E i, w \in JobIds :
              /\ jobs[i].status = WAITING_DOMAIN_LOCK
              /\ LockOf(locks, jobs[i].main_domain) = {}
              /\ jobs[w].status = WAITING_DOMAIN_LOCK
              /\ LockOf(locks, jobs[w].main_domain) # {}
              /\ jobs[w].created_at < jobs[i].created_at)
            => (resp'.job_id # 0 \/ jobs' # jobs)]_vars

\* C31: a job that is RUNNING does not stay RUNNING forever, also when a store
\* error aborted the complete or requeue that followed its render: a later
\* iteration of the worker loop carries the operation out.
AbortedUpdateRetried ==
    \A i \in 1..MaxJobs :
       (IF i \in JobIds THEN jobs[i].status = RUNNING ELSE FALSE)
          ~> (IF i \in JobIds THEN jobs[i].status # RUNNING ELSE FALSE)

\* C34: once the stop flag is set the worker claims no further job, and when
\* the loop has exited and the browser is released no job is RUNNING: the job
\* in flight had its outcome recorded by complete or requeue.
ShutdownLeavesNoJobRunning ==
    /\ [][~running => \A i \in DOMAIN jobs' :
                          jobs'[i].status = RUNNING
                             => i \in JobIds /\ jobs[i].status = RUNNING]_vars
    /\ [](worker.pc = "closed" => \A i \in JobIds : jobs[i].status # RUNNING)

\* C37: when claim_next_job calls interleave, no job is returned to two callers
\* for the same run, the attempts of a job count the times it was returned,
\* and no main_domain has two RUNNING jobs or two DomainLock rows.
InterleavedClaimsExclusive ==
    /\ \A k, m \in 1..Len(claimers) :
          (/\ k # m
           /\ claimers[k].pc = "returned"
           /\ claimers[m].pc = "returned"
           /\ claimers[k].job.job_id = claimers[m].job.job_id)
              => claimers[k].job.attempts # claimers[m].job.attempts
    /\ \A i \in JobIds :
          jobs[i].attempts =
             Cardinality({k \in 1..Len(claimers) :
                             /\ claimers[k].pc = "returned"
                             /\ claimers[k].job.job_id = i})
    /\ \A i, k \in JobIds :
          (/\ i # k
           /\ jobs[i].status = RUNNING
           /\ jobs[k].status = RUNNING)
              => jobs[i].main_domain # jobs[k].main_domain
    /\ \A l, m \in locks : l.main_domain = m.main_domain => l = m

\* C4: under the worker loop every job satisfies attempts <= max_retries + 1.
AttemptsWithinRetries ==
    \A i \in JobIds : jobs[i].attempts <= jobs[i].max_retries + 1

\* A job failed for good after the worker retried it as often as it may.
RetriesExhausted ==
    \E i \in JobIds : /\ jobs[i].status = FAILED
                      /\ jobs[i].error_code = "RENDER_FAILED"
                      /\ jobs[i].attempts > 1
                      /\ jobs[i].attempts = jobs[i].max_retries

\* C5: once a job is SUCCEEDED or FAILED no operation changes any field of its
\* row.
TerminalNeverMutated ==
    [][\A i \in JobIds : jobs[i].status \in Terminal => jobs'[i] = jobs[i]]_vars

\* C6: complete on a job that is not RUNNING is a no-op: the rows of jobs and
\* of domain_locks stay as they are and nothing is raised.
CompleteNonRunningIsNoOp ==
    [][\A job_id \in JobIds, success \in BOOLEAN, f \in Failures \cup {NoFailure} :
          (jobs[job_id].status # RUNNING /\ Complete(job_id, success, f))
              => (jobs' = jobs /\ locks' = locks /\ resp'.status = "ok")]_vars

\* C7: requeue on a job that is not RUNNING leaves the job's status and
\* started_at and every DomainLock row as they are.
RequeueNonRunningIsNoOp ==
    [][\A job_id \in JobIds :
          (jobs[job_id].status # RUNNING /\ Requeue(job_id))
              => (/\ jobs'[job_id].status = jobs[job_id].status
                  /\ jobs'[job_id].started_at = jobs[job_id].started_at
                  /\ locks' = locks)]_vars

\* C8: a submit of a URL that was submitted before on the same UTC day returns
\* the job_id that submit returned, with deduplicated = TRUE, whatever the
\* job's status has become; the day's first submit of a fingerprint returns
\* deduplicated = FALSE.
SecondSubmitDeduplicated ==
    resp.op = "submit" =>
        /\ resp.prior # 0 => (/\ resp.status = "ok"
                              /\ resp.job_id = resp.prior
                              /\ resp.deduplicated)
        /\ (resp.first /\ resp.status = "ok") => ~resp.deduplicated

\* A URL is submitted again after its job has succeeded.
SubmitAgainAfterSuccess ==
    /\ resp.op = "submit"
    /\ resp.prior # 0
    /\ resp.deduplicated
    /\ jobs[resp.job_id].status = SUCCEEDED

\* C9: a URL and a variant of it in trailing slash, case or fragment submitted
\* on one day yield one job, the second response deduplicated; the pair of the
\* empty path and the path "/" is one such pair.
VariantsAlwaysDeduplicate ==
    (variant # NoSeq /\ resp.op = "submit" /\ resp.url = variant)
        => (Len(jobs) = 1 /\ resp.deduplicated)

\* What normalize_url does give: the variants yield one job, the second response
\* deduplicated, unless the two paths differ and one of them is exactly "/".
VariantsDeduplicateButRoot ==
    (/\ variant # NoSeq
     /\ resp.op = "submit"
     /\ resp.url = variant
     /\ \/ urlparse(Lower(url)).path = urlparse(Lower(variant)).path
        \/ <<"/">> \notin {urlparse(Lower(url)).path,
                           urlparse(Lower(variant)).path})
        => (/\ Len(jobs) = 1
            /\ resp.status = "ok"
            /\ resp.deduplicated
            /\ resp.job_id = jobs[1].job_id)

\* https://example.com/a, then HTTPS://EXAMPLE.COM/a/#frag: one job.
AcceptanceExampleDeduplicated ==
    /\ url = UrlA
    /\ variant = UrlAVariant
    /\ resp.op = "submit"
    /\ resp.url = variant
    /\ Len(jobs) = 1
    /\ resp.deduplicated

\* C10: normalize_url is idempotent: applied to its own result it returns it.
NormalizeIdempotent ==
    Len(normalized) >= 2 => normalized[2] = normalized[1]

====
